---------------------------- MODULE Spec2Model ----------------------------
(***************************************************************************)
(* lowmain: a command-line adapter in front of a graph store.              *)
(*                                                                         *)
(* One process run handles one request: the handler validates its inputs,  *)
(* resolves the connection (neo4j_client::from_request), compiles a query  *)
(* text with its named parameters, sends it to the store, reads the rows   *)
(* and builds a success envelope or a classified error envelope.           *)
(*                                                                         *)
(* Text is modelled as a sequence of pieces.  A piece is a string; every   *)
(* character that comes from the caller is a piece of its own and a        *)
(* backtick is always a piece of its own (BT), so that the text the        *)
(* program builds is the concatenation of the pieces.                      *)
(***************************************************************************)
EXTENDS Integers, Sequences, FiniteSets, TLC

VARIABLES
    req,        \* the parsed request: command, positional argument, flags
    env,        \* the process environment (NEO4J_* variables)
    pc,         \* position of the handler
    calls,      \* store calls issued so far, in order
    config,     \* the connection config handed to Graph::connect
    query,      \* the compiled query: text and bound parameters
    stream,     \* the rows the store holds for the running query
    fetched,    \* number of rows taken from the stream
    rows,       \* rows / entities collected by the handler for the running query
    step,       \* index of the running query among those of the command
    parts,      \* results of the queries of the command already completed
    msg,        \* description of the driver error being classified
    err,        \* the AppError raised
    outcome,    \* the envelope returned by the handler
    store       \* the graphs the store has held, the present one last

vars ==
    <<req, env, pc, calls, config, query, stream, fetched, rows, step, parts, msg, err, outcome,
      store>>

---------------------------------------------------------------------------
(* Bounds *)

MaxDescLen == 2     \* pieces in a driver error description
MaxRows == 3        \* rows in a result stream
MaxNames == 6       \* label or relationship type names the store lists
MaxNodes == 6       \* nodes in a graph the store holds at the start

---------------------------------------------------------------------------
(* Option<T>: the empty sequence is None, a one-element sequence is Some.  *)

None == <<>>

Some(x) == <<x>>

IsSome(o) == Len(o) = 1

IsNone(o) == Len(o) = 0

Unwrap(o) == o[1]

Min(a, b) == IF a <= b THEN a ELSE b

---------------------------------------------------------------------------
(* error.rs: the nine error kinds                                          *)

Kinds ==
    { "ConnectionFailed", "AuthenticationFailed", "CypherSyntaxError",
      "ConstraintViolation", "QueryFailed", "NodeNotFound", "RelNotFound",
      "ConnectionNotConfigured", "InvalidParams" }

AppError(kind, payload) == [kind |-> kind, payload |-> payload]

NoError == AppError("none", <<>>)

\* the backtick character, always a piece of its own
BT == "[backtick]"

\* the character U+2014 of the ConnectionNotConfigured message
EmDash == "U+2014"

\* the three characters U+00E2 U+20AC U+201D that rels.rs holds in the place
\* of a dash
MisreadDash == <<"U+00E2", "U+20AC", "U+201D">>

code(e) ==
    CASE e.kind = "ConnectionFailed" -> "CONNECTION_FAILED"
      [] e.kind = "AuthenticationFailed" -> "AUTH_FAILED"
      [] e.kind = "CypherSyntaxError" -> "CYPHER_SYNTAX_ERROR"
      [] e.kind = "ConstraintViolation" -> "CONSTRAINT_VIOLATION"
      [] e.kind = "QueryFailed" -> "QUERY_FAILED"
      [] e.kind = "NodeNotFound" -> "NODE_NOT_FOUND"
      [] e.kind = "RelNotFound" -> "REL_NOT_FOUND"
      [] e.kind = "ConnectionNotConfigured" -> "CONNECTION_NOT_CONFIGURED"
      [] e.kind = "InvalidParams" -> "INVALID_PARAMS"

\* the mutant also retries the catch-all kind
retryableWide(e) == e.kind \in {"ConnectionFailed", "QueryFailed"}

retryable(e) == e.kind = "ConnectionFailed"

fix(e) ==
    CASE e.kind = "ConnectionFailed" ->
            <<"Check that Neo4j is running and the URI is correct. Default: bolt://localhost:7687">>
      [] e.kind = "AuthenticationFailed" ->
            <<"Check NEO4J_USER and NEO4J_PASSWORD, or pass --user and --password">>
      [] e.kind = "CypherSyntaxError" ->
            <<"Check Cypher syntax. Run ", BT, "lowmain schema", BT, " to see available labels and types">>
      [] e.kind = "ConstraintViolation" ->
            <<"Check ", BT, "lowmain schema constraints", BT, " for active constraints">>
      [] e.kind = "QueryFailed" ->
            <<"Check the query and parameters. Run ", BT, "lowmain schema", BT, " to explore the database">>
      [] e.kind = "NodeNotFound" ->
            <<"No node with ID ">> \o e.payload
                \o <<". Run ", BT, "lowmain node find", BT, " to list nodes">>
      [] e.kind = "RelNotFound" ->
            <<"No relationship with ID ">> \o e.payload
                \o <<". Run ", BT, "lowmain rel find", BT, " to list relationships">>
      [] e.kind = "ConnectionNotConfigured" ->
            <<"Set NEO4J_PASSWORD env var or pass --password. Example: NEO4J_PASSWORD=secret lowmain ping">>
      [] e.kind = "InvalidParams" ->
            <<"Check parameter format. --params expects a JSON object, --props expects a JSON object">>

\* #[error("...")]: the Display text of an AppError
to_string(e) ==
    CASE e.kind = "ConnectionFailed" -> <<"Connection failed: ">> \o e.payload
      [] e.kind = "AuthenticationFailed" -> <<"Authentication failed: ">> \o e.payload
      [] e.kind = "CypherSyntaxError" -> <<"Cypher syntax error: ">> \o e.payload
      [] e.kind = "ConstraintViolation" -> <<"Constraint violation: ">> \o e.payload
      [] e.kind = "QueryFailed" -> <<"Query failed: ">> \o e.payload
      [] e.kind = "NodeNotFound" -> <<"Node not found: ">> \o e.payload
      [] e.kind = "RelNotFound" -> <<"Relationship not found: ">> \o e.payload
      [] e.kind = "ConnectionNotConfigured" ->
            <<"Connection not configured ", EmDash, " NEO4J_PASSWORD is required">>
      [] e.kind = "InvalidParams" -> <<"Invalid parameters: ">> \o e.payload

\* the mutant hands the remediation text over as the message
CommandError_swapped(e) ==
    [ message |-> fix(e), code |-> code(e), fix |-> to_string(e),
      retryable |-> retryable(e) ]

\* impl From<AppError> for CommandError
CommandError(e) ==
    [ message |-> to_string(e), code |-> code(e), fix |-> fix(e),
      retryable |-> retryable(e) ]

\* Err(e.into())
Failure(e) == Some([ok |-> FALSE, error |-> CommandError(e)])

---------------------------------------------------------------------------
(* error.rs: map_neo4j_error                                               *)
(*                                                                         *)
(* A driver error description is a sequence of pieces taken from           *)
(* DescPieces.  No marker is a substring of another piece or of the        *)
(* concatenation of two pieces, so str::contains(marker) is membership of  *)
(* the marker among the pieces.                                            *)

AuthMarkers == {"authentication", "Unauthorized", "credentials"}

SyntaxMarkers == {"SyntaxError", "Invalid input"}

ConstraintMarkers == {"ConstraintValidationFailed", "already exists"}

ConnectionMarkers == {"connection", "Connection", "refused"}

Markers == AuthMarkers \cup SyntaxMarkers \cup ConstraintMarkers \cup ConnectionMarkers

DescPieces == Markers \cup {" timed out ", "Authentication"}

contains(m, marker) == \E i \in 1..Len(m) : m[i] = marker

containsAny(m, markers) == \E k \in markers : contains(m, k)

\* the mutant tests the connection markers first
map_neo4j_error_connection_first(m) ==
    IF containsAny(m, ConnectionMarkers) THEN AppError("ConnectionFailed", m)
    ELSE IF containsAny(m, AuthMarkers) THEN AppError("AuthenticationFailed", m)
    ELSE IF containsAny(m, SyntaxMarkers) THEN AppError("CypherSyntaxError", m)
    ELSE IF containsAny(m, ConstraintMarkers) THEN AppError("ConstraintViolation", m)
    ELSE AppError("QueryFailed", m)

\* the mutant leaves out the "refused" marker
map_neo4j_error_without_refused(m) ==
    IF contains(m, "authentication") \/ contains(m, "Unauthorized")
        \/ contains(m, "credentials")
    THEN AppError("AuthenticationFailed", m)
    ELSE IF contains(m, "SyntaxError") \/ contains(m, "Invalid input")
    THEN AppError("CypherSyntaxError", m)
    ELSE IF contains(m, "ConstraintValidationFailed") \/ contains(m, "already exists")
    THEN AppError("ConstraintViolation", m)
    ELSE IF contains(m, "connection") \/ contains(m, "Connection")
    THEN AppError("ConnectionFailed", m)
    ELSE AppError("QueryFailed", m)

map_neo4j_error(m) ==
    IF contains(m, "authentication") \/ contains(m, "Unauthorized")
        \/ contains(m, "credentials")
    THEN AppError("AuthenticationFailed", m)
    ELSE IF contains(m, "SyntaxError") \/ contains(m, "Invalid input")
    THEN AppError("CypherSyntaxError", m)
    ELSE IF contains(m, "ConstraintValidationFailed") \/ contains(m, "already exists")
    THEN AppError("ConstraintViolation", m)
    ELSE IF contains(m, "connection") \/ contains(m, "Connection") \/ contains(m, "refused")
    THEN AppError("ConnectionFailed", m)
    ELSE AppError("QueryFailed", m)

SeqsUpTo(S, n) == UNION { [1..k -> S] : k \in 0..n }

Descriptions == SeqsUpTo(DescPieces, MaxDescLen)

---------------------------------------------------------------------------
(* Characters and numbers typed by the caller                              *)

DigitChars == {"0", "1", "2", "3", "4", "5", "6", "7", "8", "9"}

DigitVal(c) ==
    CASE c = "0" -> 0 [] c = "1" -> 1 [] c = "2" -> 2 [] c = "3" -> 3
      [] c = "4" -> 4 [] c = "5" -> 5 [] c = "6" -> 6 [] c = "7" -> 7
      [] c = "8" -> 8 [] c = "9" -> 9

DigitChar(d) ==
    CASE d = 0 -> "0" [] d = 1 -> "1" [] d = 2 -> "2" [] d = 3 -> "3"
      [] d = 4 -> "4" [] d = 5 -> "5" [] d = 6 -> "6" [] d = 7 -> "7"
      [] d = 8 -> "8" [] d = 9 -> "9"

AllDigits(s) == Len(s) > 0 /\ \A i \in 1..Len(s) : s[i] \in DigitChars

RECURSIVE DigitsValue(_)
DigitsValue(s) ==
    IF Len(s) = 0 THEN 0
    ELSE 10 * DigitsValue(SubSeq(s, 1, Len(s) - 1)) + DigitVal(s[Len(s)])

\* the digits of a number without its leading zeros
RECURSIVE StripZeros(_)
StripZeros(s) == IF Len(s) > 0 /\ s[1] = "0" THEN StripZeros(Tail(s)) ELSE s

\* the number written m is greater than the number written max, both without
\* leading zeros
Exceeds(m, max) ==
    \/ Len(m) > Len(max)
    \/ /\ Len(m) = Len(max)
       /\ \E i \in 1..Len(m) :
             /\ DigitVal(m[i]) > DigitVal(max[i])
             /\ \A j \in 1..(i - 1) : m[j] = max[j]

\* usize::MAX of a 64-bit target, 18446744073709551615
USIZE_MAX ==
    <<"1", "8", "4", "4", "6", "7", "4", "4", "0", "7", "3", "7", "0", "9", "5", "5", "1", "6",
      "1", "5">>

\* i64::MAX, 9223372036854775807
I64_MAX ==
    <<"9", "2", "2", "3", "3", "7", "2", "0", "3", "6", "8", "5", "4", "7", "7", "5", "8", "0",
      "7">>

\* the magnitude of i64::MIN, 9223372036854775808
I64_MIN ==
    <<"9", "2", "2", "3", "3", "7", "2", "0", "3", "6", "8", "5", "4", "7", "7", "5", "8", "0",
      "8">>

\* str::parse::<usize>: an optional '+', then one or more digits; a number
\* above usize::MAX is an error (PosOverflow)
parse_usize(s) ==
    LET body == IF Len(s) > 0 /\ s[1] = "+" THEN Tail(s) ELSE s
    IN IF ~AllDigits(body) THEN None
       ELSE IF Exceeds(StripZeros(body), USIZE_MAX) THEN None
       ELSE Some(DigitsValue(body))

\* str::parse::<i64>: an optional '+' or '-', then one or more digits; a
\* number outside i64 is an error (PosOverflow, NegOverflow).  The value is
\* an integer of the checker: a number of i64 above 2^31 - 1 stops the
\* evaluation with an overflow, it is never given another value.
parse_i64(s) ==
    LET signed == Len(s) > 0 /\ s[1] \in {"+", "-"}
        negative == signed /\ s[1] = "-"
        body == IF signed THEN Tail(s) ELSE s
    IN IF ~AllDigits(body) THEN None
       ELSE IF Exceeds(StripZeros(body), IF negative THEN I64_MIN ELSE I64_MAX) THEN None
       ELSE IF negative THEN Some(0 - DigitsValue(body))
       ELSE Some(DigitsValue(body))

RECURSIVE NatDigits(_)
NatDigits(n) ==
    IF n < 10 THEN <<DigitChar(n)>> ELSE NatDigits(n \div 10) \o <<DigitChar(n % 10)>>

\* Display of an integer, as format!("{n}") writes it
Display(n) == IF n < 0 THEN <<"-">> \o NatDigits(0 - n) ELSE NatDigits(n)

\* the mutant splits at the last '='
split_once_last(s) ==
    IF \E i \in 1..Len(s) : s[i] = "="
    THEN LET i == CHOOSE k \in 1..Len(s) :
                    s[k] = "=" /\ \A j \in (k + 1)..Len(s) : s[j] # "="
         IN Some(<<SubSeq(s, 1, i - 1), SubSeq(s, i + 1, Len(s))>>)
    ELSE None

\* str::split_once('='): the text before and after the first '='
split_once(s) ==
    IF \E i \in 1..Len(s) : s[i] = "="
    THEN LET i == CHOOSE k \in 1..Len(s) :
                    s[k] = "=" /\ \A j \in 1..(k - 1) : s[j] # "="
         IN Some(<<SubSeq(s, 1, i - 1), SubSeq(s, i + 1, Len(s))>>)
    ELSE None

\* A character is one piece.  A printable ASCII character is the piece that
\* holds it; the tab, the line feed and the carriage return are the pieces
\* "\t", "\n" and "\r"; every other character is the piece "U+" followed by
\* the four hexadecimal digits of its code point.

\* the printable ASCII characters, from the space (U+0020) to the tilde
Ascii ==
    << " ", "!", "\"", "#", "$", "%", "&", "'", "(", ")", "*", "+", ",", "-", ".", "/",
       "0", "1", "2", "3", "4", "5", "6", "7", "8", "9", ":", ";", "<", "=", ">", "?",
       "@", "A", "B", "C", "D", "E", "F", "G", "H", "I", "J", "K", "L", "M", "N", "O",
       "P", "Q", "R", "S", "T", "U", "V", "W", "X", "Y", "Z", "[", "\\", "]", "^", "_",
       BT, "a", "b", "c", "d", "e", "f", "g", "h", "i", "j", "k", "l", "m", "n", "o",
       "p", "q", "r", "s", "t", "u", "v", "w", "x", "y", "z", "{", "|", "}", "~" >>

\* the control characters U+0000 to U+001F, the tab, the line feed and the
\* carriage return among them
Controls ==
    <<
       "U+0000", "U+0001", "U+0002", "U+0003", "U+0004", "U+0005", "U+0006", "U+0007",
       "U+0008", "\t"    , "\n"    , "U+000B", "U+000C", "\r"    , "U+000E", "U+000F",
       "U+0010", "U+0011", "U+0012", "U+0013", "U+0014", "U+0015", "U+0016", "U+0017",
       "U+0018", "U+0019", "U+001A", "U+001B", "U+001C", "U+001D", "U+001E", "U+001F" >>

\* U+007F, Latin-1 Supplement and Latin Extended-A
Latin ==
    <<
       "U+007F", "U+0080", "U+0081", "U+0082", "U+0083", "U+0084", "U+0085", "U+0086",
       "U+0087", "U+0088", "U+0089", "U+008A", "U+008B", "U+008C", "U+008D", "U+008E",
       "U+008F", "U+0090", "U+0091", "U+0092", "U+0093", "U+0094", "U+0095", "U+0096",
       "U+0097", "U+0098", "U+0099", "U+009A", "U+009B", "U+009C", "U+009D", "U+009E",
       "U+009F", "U+00A0", "U+00A1", "U+00A2", "U+00A3", "U+00A4", "U+00A5", "U+00A6",
       "U+00A7", "U+00A8", "U+00A9", "U+00AA", "U+00AB", "U+00AC", "U+00AD", "U+00AE",
       "U+00AF", "U+00B0", "U+00B1", "U+00B2", "U+00B3", "U+00B4", "U+00B5", "U+00B6",
       "U+00B7", "U+00B8", "U+00B9", "U+00BA", "U+00BB", "U+00BC", "U+00BD", "U+00BE",
       "U+00BF", "U+00C0", "U+00C1", "U+00C2", "U+00C3", "U+00C4", "U+00C5", "U+00C6",
       "U+00C7", "U+00C8", "U+00C9", "U+00CA", "U+00CB", "U+00CC", "U+00CD", "U+00CE",
       "U+00CF", "U+00D0", "U+00D1", "U+00D2", "U+00D3", "U+00D4", "U+00D5", "U+00D6",
       "U+00D7", "U+00D8", "U+00D9", "U+00DA", "U+00DB", "U+00DC", "U+00DD", "U+00DE",
       "U+00DF", "U+00E0", "U+00E1", "U+00E2", "U+00E3", "U+00E4", "U+00E5", "U+00E6",
       "U+00E7", "U+00E8", "U+00E9", "U+00EA", "U+00EB", "U+00EC", "U+00ED", "U+00EE",
       "U+00EF", "U+00F0", "U+00F1", "U+00F2", "U+00F3", "U+00F4", "U+00F5", "U+00F6",
       "U+00F7", "U+00F8", "U+00F9", "U+00FA", "U+00FB", "U+00FC", "U+00FD", "U+00FE",
       "U+00FF", "U+0100", "U+0101", "U+0102", "U+0103", "U+0104", "U+0105", "U+0106",
       "U+0107", "U+0108", "U+0109", "U+010A", "U+010B", "U+010C", "U+010D", "U+010E",
       "U+010F", "U+0110", "U+0111", "U+0112", "U+0113", "U+0114", "U+0115", "U+0116",
       "U+0117", "U+0118", "U+0119", "U+011A", "U+011B", "U+011C", "U+011D", "U+011E",
       "U+011F", "U+0120", "U+0121", "U+0122", "U+0123", "U+0124", "U+0125", "U+0126",
       "U+0127", "U+0128", "U+0129", "U+012A", "U+012B", "U+012C", "U+012D", "U+012E",
       "U+012F", "U+0130", "U+0131", "U+0132", "U+0133", "U+0134", "U+0135", "U+0136",
       "U+0137", "U+0138", "U+0139", "U+013A", "U+013B", "U+013C", "U+013D", "U+013E",
       "U+013F", "U+0140", "U+0141", "U+0142", "U+0143", "U+0144", "U+0145", "U+0146",
       "U+0147", "U+0148", "U+0149", "U+014A", "U+014B", "U+014C", "U+014D", "U+014E",
       "U+014F", "U+0150", "U+0151", "U+0152", "U+0153", "U+0154", "U+0155", "U+0156",
       "U+0157", "U+0158", "U+0159", "U+015A", "U+015B", "U+015C", "U+015D", "U+015E",
       "U+015F", "U+0160", "U+0161", "U+0162", "U+0163", "U+0164", "U+0165", "U+0166",
       "U+0167", "U+0168", "U+0169", "U+016A", "U+016B", "U+016C", "U+016D", "U+016E",
       "U+016F", "U+0170", "U+0171", "U+0172", "U+0173", "U+0174", "U+0175", "U+0176",
       "U+0177", "U+0178", "U+0179", "U+017A", "U+017B", "U+017C", "U+017D", "U+017E",
       "U+017F" >>

\* General Punctuation from U+2010
Punctuation ==
    <<
       "U+2010", "U+2011", "U+2012", "U+2013", "U+2014", "U+2015", "U+2016", "U+2017",
       "U+2018", "U+2019", "U+201A", "U+201B", "U+201C", "U+201D", "U+201E", "U+201F",
       "U+2020", "U+2021", "U+2022", "U+2023", "U+2024", "U+2025", "U+2026", "U+2027",
       "U+2028", "U+2029", "U+202A", "U+202B", "U+202C", "U+202D", "U+202E", "U+202F",
       "U+2030", "U+2031", "U+2032", "U+2033", "U+2034", "U+2035", "U+2036", "U+2037",
       "U+2038", "U+2039", "U+203A", "U+203B", "U+203C", "U+203D", "U+203E", "U+203F" >>

\* Currency Symbols
Currency ==
    <<
       "U+20A0", "U+20A1", "U+20A2", "U+20A3", "U+20A4", "U+20A5", "U+20A6", "U+20A7",
       "U+20A8", "U+20A9", "U+20AA", "U+20AB", "U+20AC", "U+20AD", "U+20AE", "U+20AF",
       "U+20B0", "U+20B1", "U+20B2", "U+20B3", "U+20B4", "U+20B5", "U+20B6", "U+20B7",
       "U+20B8", "U+20B9", "U+20BA", "U+20BB", "U+20BC", "U+20BD", "U+20BE", "U+20BF" >>

\* the characters of a block with their code points
Block(names, first) == {<<names[i], first + i - 1>> : i \in 1..Len(names)}

Characters ==
    Block(Ascii, 32) \cup Block(Controls, 0) \cup Block(Latin, 127)
        \cup Block(Punctuation, 8208) \cup Block(Currency, 8352)

CodePoints ==
    [c \in {p[1] : p \in Characters} |-> (CHOOSE p \in Characters : p[1] = c)[2]]

\* the code point of a character, defined for the characters of the blocks
\* above and for no other piece
CodePoint(c) == CodePoints[c]

\* the UTF-8 bytes of a code point
Utf8(cp) ==
    IF cp < 128 THEN <<cp>>
    ELSE IF cp < 2048 THEN <<192 + (cp \div 64), 128 + (cp % 64)>>
    ELSE IF cp < 65536
    THEN <<224 + (cp \div 4096), 128 + ((cp \div 64) % 64), 128 + (cp % 64)>>
    ELSE <<240 + (cp \div 262144), 128 + ((cp \div 4096) % 64), 128 + ((cp \div 64) % 64),
           128 + (cp % 64)>>

\* the bytes of a text
RECURSIVE as_bytes(_)
as_bytes(s) == IF Len(s) = 0 THEN <<>> ELSE Utf8(CodePoint(s[1])) \o as_bytes(Tail(s))

\* lexicographic order of two byte sequences
RECURSIVE BytesLess(_, _)
BytesLess(a, b) ==
    IF Len(b) = 0 THEN FALSE
    ELSE IF Len(a) = 0 THEN TRUE
    ELSE IF a[1] # b[1] THEN a[1] < b[1]
    ELSE BytesLess(Tail(a), Tail(b))

\* String's Ord: the order of the UTF-8 bytes
StrLess(a, b) == BytesLess(as_bytes(a), as_bytes(b))

---------------------------------------------------------------------------
(* serde_json values and the parse of a JSON object                        *)
(*                                                                         *)
(* A JSON text is a sequence of tokens: the punctuation of an object and   *)
(* one token per value (a nested array or object is one value token that   *)
(* carries its JSON text).                                                 *)

\* tag: the variant of serde_json::Value; class: the variant of Number;
\* n: the integer or boolean held; s: the string held, or the JSON text of
\* the value; items: the elements of an array, the entries of an object
JValue(tag, class, n, s, items) ==
    [tag |-> tag, class |-> class, n |-> n, s |-> s, items |-> items]

JString(s) == JValue("String", "-", 0, s, <<>>)

JInt(n) == JValue("Number", IF n < 0 THEN "NegInt" ELSE "PosInt", n, Display(n), <<>>)

\* an integer above i64::MAX, held as u64: as_i64() is None, as_f64() is not
JBigInt(text) == JValue("Number", "PosIntAboveI64", 0, text, <<>>)

JFloat(text) == JValue("Number", "Float", 0, text, <<>>)

JBool(b) == JValue("Bool", "-", IF b THEN 1 ELSE 0, IF b THEN <<"true">> ELSE <<"false">>, <<>>)

JNull == JValue("Null", "-", 0, <<"null">>, <<>>)

JArray(text, items) == JValue("Array", "-", 0, text, items)

JObject(text, entries) == JValue("Object", "-", 0, text, entries)

Punct(t) == [tok |-> t, v |-> JNull]

ValueTok(v) == [tok |-> "value", v |-> v]

\* entries k : v (, k : v)* of an object body, None when ill-formed
RECURSIVE ParseEntries(_)
ParseEntries(toks) ==
    IF Len(toks) < 3 THEN None
    ELSE IF ~(toks[1].tok = "value" /\ toks[1].v.tag = "String"
              /\ toks[2].tok = ":" /\ toks[3].tok = "value") THEN None
    ELSE LET entry == [key |-> toks[1].v.s, value |-> toks[3].v]
         IN IF Len(toks) = 3 THEN Some(<<entry>>)
            ELSE IF toks[4].tok # "," THEN None
            ELSE LET rest == ParseEntries(SubSeq(toks, 5, Len(toks)))
                 IN IF IsNone(rest) THEN None ELSE Some(<<entry>> \o Unwrap(rest))

\* Map::insert into the key-ordered map: a repeated key keeps its place and
\* takes the new value
RECURSIVE MapInsert(_, _)
MapInsert(m, e) ==
    IF Len(m) = 0 THEN <<e>>
    ELSE IF m[1].key = e.key THEN <<e>> \o Tail(m)
    ELSE IF StrLess(e.key, m[1].key) THEN <<e>> \o m
    ELSE <<m[1]>> \o MapInsert(Tail(m), e)

RECURSIVE MapFrom(_)
MapFrom(entries) ==
    IF Len(entries) = 0 THEN <<>>
    ELSE MapInsert(MapFrom(SubSeq(entries, 1, Len(entries) - 1)), entries[Len(entries)])

\* the elements of an array, the values of an object, nothing of a scalar
elements(v) ==
    IF v.tag = "Array" THEN v.items
    ELSE IF v.tag = "Object" THEN [i \in 1..Len(v.items) |-> v.items[i].value]
    ELSE <<>>

\* the elements of the values vs[lo..hi], in one sequence
RECURSIVE Children(_, _, _)
Children(vs, lo, hi) ==
    IF lo > hi THEN <<>>
    ELSE IF lo = hi THEN elements(vs[lo])
    ELSE Children(vs, lo, (lo + hi) \div 2) \o Children(vs, ((lo + hi) \div 2) + 1, hi)

\* the values that stand n arrays or objects inside the values vs
RECURSIVE Inside(_, _)
Inside(vs, n) ==
    IF n = 0 \/ Len(vs) = 0 THEN vs
    ELSE IF n = 1 THEN Children(vs, 1, Len(vs))
    ELSE Inside(Inside(vs, n \div 2), n - (n \div 2))

\* serde_json's Deserializer starts with remaining_depth = 128, takes one off
\* at every array and object it enters and fails when none is left
RECURSION_LIMIT == 128

\* an array or object of the entries is the 128th the parser enters, the
\* object of the entries being the first
recursion_limit_exceeded(entries) ==
    LET deep == Inside([i \in 1..Len(entries) |-> entries[i].value], RECURSION_LIMIT - 2)
    IN \E i \in 1..Len(deep) : deep[i].tag \in {"Array", "Object"}

\* serde_json::from_str::<Map<String, Value>>: Some(map) or None on any error
from_str(toks) ==
    IF Len(toks) < 2 \/ toks[1].tok # "{" \/ toks[Len(toks)].tok # "}" THEN None
    ELSE IF Len(toks) = 2 THEN Some(<<>>)
    ELSE LET entries == ParseEntries(SubSeq(toks, 2, Len(toks) - 1))
         IN IF IsNone(entries) THEN None
            ELSE IF recursion_limit_exceeded(Unwrap(entries)) THEN None
            ELSE Some(MapFrom(Unwrap(entries)))

keys(m) == [i \in 1..Len(m) |-> m[i].key]

\* Value::to_string of a value that is neither string, number nor boolean
value_to_string(v) == v.s

---------------------------------------------------------------------------
(* Named query parameters (neo4rs::Query::param): a map, a later binding   *)
(* of a name replaces the earlier one                                      *)

PString(s) == [type |-> "String", n |-> 0, s |-> s]

PInteger(n) == [type |-> "Integer", n |-> n, s |-> <<>>]

PFloat(text) == [type |-> "Float", n |-> 0, s |-> text]

PBoolean(b) == [type |-> "Boolean", n |-> IF b THEN 1 ELSE 0, s |-> <<>>]

param(params, name, value) ==
    {b \in params : b.name # name} \cup {[name |-> name, value |-> value]}

\* the mutant binds every number as its text
json_param_text(v) ==
    CASE v.tag = "Bool" -> PBoolean(v.n = 1)
      [] OTHER -> PString(v.s)

\* the match on a serde_json::Value that picks the parameter type
json_param(v) ==
    CASE v.tag = "String" -> PString(v.s)
      [] v.tag = "Number" ->
            IF v.class \in {"PosInt", "NegInt"} THEN PInteger(v.n) ELSE PFloat(v.s)
      [] v.tag = "Bool" -> PBoolean(v.n = 1)
      [] OTHER -> PString(value_to_string(v))

RECURSIVE bind_props(_, _)
bind_props(params, m) ==
    IF Len(m) = 0 THEN params
    ELSE bind_props(param(params, m[1].key, json_param(m[1].value)), Tail(m))

---------------------------------------------------------------------------
(* The request (agcli::CommandRequest) and the environment                 *)

Commands ==
    { "ping", "query", "schema", "schema labels", "schema types",
      "schema indexes", "schema constraints", "schema count",
      "node find", "node get", "node create", "node update", "node delete",
      "rel find", "rel create", "rel delete" }

ConnFlags == {"uri", "user", "password", "db"}

FlagNames ==
    { "label", "where", "limit", "props", "set", "detach", "from", "to",
      "type", "params", "write" } \cup ConnFlags

EnvKeys == {"NEO4J_URI", "NEO4J_USER", "NEO4J_PASSWORD", "NEO4J_DB"}

NoFlags == [f \in FlagNames |-> None]

NoEnv == [k \in EnvKeys |-> None]

\* req.flag(name)
flag(r, name) == r.flags[name]

\* req.arg(0)
arg(r) == r.arg0

\* env::var(key).ok()
env_var(e, key) == e[key]

Request(cmd, a, fl) == [cmd |-> cmd, arg0 |-> a, flags |-> fl]

\* flags fl with the flags of over set on top
With(fl, over) == [f \in FlagNames |-> IF f \in DOMAIN over THEN over[f] ELSE fl[f]]

---------------------------------------------------------------------------
(* neo4j_client.rs                                                         *)

DEFAULT_URI == <<"bolt://localhost:7687">>

DEFAULT_USER == <<"neo4j">>

DEFAULT_DB == <<"neo4j">>

\* the mutant reads the environment before the flag
resolve_env_first(r, e, flagName, env_key, default) ==
    IF IsSome(env_var(e, env_key)) THEN env_var(e, env_key)
    ELSE IF IsSome(flag(r, flagName)) THEN flag(r, flagName)
    ELSE default

\* Resolve a connection value from: CLI flag > env var > default.
resolve(r, e, flagName, env_key, default) ==
    IF IsSome(flag(r, flagName)) THEN flag(r, flagName)
    ELSE IF IsSome(env_var(e, env_key)) THEN env_var(e, env_key)
    ELSE default

\* the mutant falls back to a default password
connection_config_default_password(r, e) ==
    LET uri == resolve(r, e, "uri", "NEO4J_URI", Some(DEFAULT_URI))
        user == resolve(r, e, "user", "NEO4J_USER", Some(DEFAULT_USER))
        password == resolve(r, e, "password", "NEO4J_PASSWORD", Some(DEFAULT_USER))
        db == resolve(r, e, "db", "NEO4J_DB", Some(DEFAULT_DB))
    IN [ok |-> TRUE,
        config |-> [uri |-> Unwrap(uri), user |-> Unwrap(user),
                    password |-> Unwrap(password), db |-> Unwrap(db)]]

\* the part of from_request before Graph::connect: the connection config,
\* or ConnectionNotConfigured when no password resolves.
\* ConfigBuilder::build has all four fields set and does not fail.
connection_config(r, e) ==
    LET uri == resolve(r, e, "uri", "NEO4J_URI", Some(DEFAULT_URI))
        user == resolve(r, e, "user", "NEO4J_USER", Some(DEFAULT_USER))
        password == resolve(r, e, "password", "NEO4J_PASSWORD", None)
        db == resolve(r, e, "db", "NEO4J_DB", Some(DEFAULT_DB))
    IN IF IsNone(password) THEN [ok |-> FALSE, error |-> AppError("ConnectionNotConfigured", <<>>)]
       ELSE [ok |-> TRUE,
             config |-> [uri |-> Unwrap(uri), user |-> Unwrap(user),
                         password |-> Unwrap(password), db |-> Unwrap(db)]]

\* connection_info: the URI and database name for display
connection_info(r, e) ==
    <<Unwrap(resolve(r, e, "uri", "NEO4J_URI", Some(DEFAULT_URI))),
      Unwrap(resolve(r, e, "db", "NEO4J_DB", Some(DEFAULT_DB)))>>

---------------------------------------------------------------------------
(* commands/*.rs: input validation                                         *)

InvalidParams(reason) == AppError("InvalidParams", reason)

\* the text of a serde_json parse error
SerdeError == <<"<serde_json error>">>

\* req.flag("limit").and_then(|v| v.parse().ok()).unwrap_or(100)
DefaultLimit == 100

limit_of(r) ==
    IF IsNone(flag(r, "limit")) THEN DefaultLimit
    ELSE LET p == parse_usize(Unwrap(flag(r, "limit")))
         IN IF IsSome(p) THEN Unwrap(p) ELSE DefaultLimit

\* req.arg(0) parsed as an i64 id, or the InvalidParams of the command
id_error(r, missing, invalid) ==
    IF IsNone(arg(r)) THEN Some(InvalidParams(missing))
    ELSE IF IsNone(parse_i64(Unwrap(arg(r)))) THEN Some(InvalidParams(invalid \o Unwrap(arg(r))))
    ELSE None

\* first error of a sequence of checks, in the order the handler makes them
RECURSIVE FirstError(_)
FirstError(checks) ==
    IF Len(checks) = 0 THEN None
    ELSE IF IsSome(checks[1]) THEN checks[1]
    ELSE FirstError(Tail(checks))

Missing(r, name, reason) == IF IsNone(flag(r, name)) THEN Some(InvalidParams(reason)) ELSE None

BadJson(r, name, prefix) ==
    IF IsSome(flag(r, name)) /\ IsNone(from_str(Unwrap(flag(r, name))))
    THEN Some(InvalidParams(prefix \o SerdeError))
    ELSE None

BadId(r, name, prefix) ==
    IF IsSome(flag(r, name)) /\ IsNone(parse_i64(Unwrap(flag(r, name))))
    THEN Some(InvalidParams(prefix \o Unwrap(flag(r, name))))
    ELSE None

\* the checks a handler makes before it calls from_request
before_connect(r) ==
    CASE r.cmd = "node find" ->
            Missing(r, "label", <<"Missing --label. Usage: lowmain node find --label=Person">>)
      [] r.cmd = "node get" ->
            id_error(r, <<"Missing node ID. Usage: lowmain node get <id>">>, <<"Invalid node ID: ">>)
      [] r.cmd = "node create" ->
            FirstError(<<
                Missing(r, "label", <<"Missing --label. Usage: lowmain node create --label=Person --props='{\"name\":\"Alice\"}'">>),
                Missing(r, "props", <<"Missing --props. Provide a JSON object of properties">>),
                BadJson(r, "props", <<"Invalid --props JSON: ">>) >>)
      [] r.cmd = "node update" ->
            FirstError(<<
                id_error(r, <<"Missing node ID. Usage: lowmain node update <id> --set='{\"name\":\"Bob\"}'">>,
                         <<"Invalid node ID: ">>),
                Missing(r, "set", <<"Missing --set. Provide a JSON object of properties to update">>),
                BadJson(r, "set", <<"Invalid --set JSON: ">>) >>)
      [] r.cmd = "node delete" ->
            id_error(r, <<"Missing node ID. Usage: lowmain node delete <id>">>, <<"Invalid node ID: ">>)
      [] r.cmd = "rel create" ->
            FirstError(<<
                Missing(r, "from", <<"Missing --from. Usage: lowmain rel create --from=1 --to=2 --type=KNOWS">>),
                Missing(r, "to", <<"Missing --to node ID">>),
                Missing(r, "type", <<"Missing --type relationship type">>),
                BadId(r, "from", <<"Invalid --from ID: ">>),
                BadId(r, "to", <<"Invalid --to ID: ">>) >>)
      [] r.cmd = "rel delete" ->
            id_error(r, <<"Missing relationship ID. Usage: lowmain rel delete <id>">>,
                     <<"Invalid relationship ID: ">>)
      [] r.cmd = "query" ->
            IF IsNone(arg(r))
            THEN Some(InvalidParams(<<"Missing Cypher query. Usage: lowmain query \"MATCH (n) RETURN n\"">>))
            ELSE None
      [] OTHER -> None

\* the checks a handler makes after from_request has returned the graph
after_connect(r) ==
    CASE r.cmd = "node find" ->
            IF IsSome(flag(r, "where")) /\ IsNone(split_once(Unwrap(flag(r, "where"))))
            THEN Some(InvalidParams(<<"Invalid --where format. Use prop=value">>))
            ELSE None
      [] r.cmd = "rel create" -> BadJson(r, "props", <<"Invalid --props JSON: ">>)
      [] r.cmd = "query" -> BadJson(r, "params", <<"Invalid --params JSON: ">>)
      [] OTHER -> None

---------------------------------------------------------------------------
(* commands/*.rs: the query each handler compiles                          *)

\* names of the parameters the handlers bind themselves
P_val == <<"v", "a", "l">>

P_id == <<"i", "d">>

P_from_id == <<"f", "r", "o", "m", "_", "i", "d">>

P_to_id == <<"t", "o", "_", "i", "d">>

Query(text, params) == [text |-> text, params |-> params]

NoParams == {}

\* format!("`{ident}`")
Quoted(ident) == <<BT>> \o ident \o <<BT>>

\* props.keys().map(|k| format!("n.`{k}` = $`{k}`")).collect().join(", ")
RECURSIVE set_clause(_, _)
set_clause(var, ks) ==
    IF Len(ks) = 0 THEN <<>>
    ELSE LET one == <<var>> \o Quoted(ks[1]) \o <<" = $">> \o Quoted(ks[1])
         IN IF Len(ks) = 1 THEN one ELSE one \o <<", ">> \o set_clause(var, Tail(ks))

\* the props object of a request whose JSON is known to parse
props_of(r, name) == Unwrap(from_str(Unwrap(flag(r, name))))

node_find_query(r) ==
    LET label == Unwrap(flag(r, "label"))
        limit == limit_of(r)
    IN IF IsSome(flag(r, "where"))
       THEN LET kv == Unwrap(split_once(Unwrap(flag(r, "where"))))
            IN Query(<<"MATCH (n:">> \o Quoted(label) \o <<") WHERE n.">> \o Quoted(kv[1])
                        \o <<" = $val RETURN n LIMIT ">> \o Display(limit),
                     param(NoParams, P_val, PString(kv[2])))
       ELSE Query(<<"MATCH (n:">> \o Quoted(label) \o <<") RETURN n LIMIT ">> \o Display(limit),
                  NoParams)

node_get_query(r) ==
    Query(<<"MATCH (n) WHERE elementId(n) = toString($id) OR id(n) = $id RETURN n">>,
          param(NoParams, P_id, PInteger(Unwrap(parse_i64(Unwrap(arg(r)))))))

node_create_query(r) ==
    LET label == Unwrap(flag(r, "label"))
        props == props_of(r, "props")
        sc == set_clause("n.", keys(props))
    IN Query(IF Len(sc) = 0
             THEN <<"CREATE (n:">> \o Quoted(label) \o <<") RETURN n">>
             ELSE <<"CREATE (n:">> \o Quoted(label) \o <<") SET ">> \o sc \o <<" RETURN n">>,
             bind_props(NoParams, props))

node_update_query(r) ==
    LET id == Unwrap(parse_i64(Unwrap(arg(r))))
        props == props_of(r, "set")
        sc == set_clause("n.", keys(props))
    IN Query(<<"MATCH (n) WHERE id(n) = $id SET ">> \o sc \o <<" RETURN n">>,
             bind_props(param(NoParams, P_id, PInteger(id)), props))

\* the mutant detaches whether or not --detach is given
node_delete_query_detaching(r) ==
    Query(<<"MATCH (n) WHERE id(n) = $id DETACH DELETE n RETURN count(n) AS deleted">>,
          param(NoParams, P_id, PInteger(Unwrap(parse_i64(Unwrap(arg(r)))))))

node_delete_query(r) ==
    Query(IF IsSome(flag(r, "detach"))
          THEN <<"MATCH (n) WHERE id(n) = $id DETACH DELETE n RETURN count(n) AS deleted">>
          ELSE <<"MATCH (n) WHERE id(n) = $id DELETE n RETURN count(n) AS deleted">>,
          param(NoParams, P_id, PInteger(Unwrap(parse_i64(Unwrap(arg(r)))))))

\* req.flag(name).and_then(|v| v.parse::<i64>().ok())
opt_id(r, name) == IF IsSome(flag(r, name)) THEN parse_i64(Unwrap(flag(r, name))) ELSE None

rel_find_query(r) ==
    LET limit == limit_of(r)
        from_id == opt_id(r, "from")
        to_id == opt_id(r, "to")
        rel_pattern == IF IsSome(flag(r, "type"))
                       THEN <<"[r:">> \o Quoted(Unwrap(flag(r, "type"))) \o <<"]">>
                       ELSE <<"[r]">>
        where_clauses == (IF IsSome(from_id) THEN << <<"id(a) = $from_id">> >> ELSE <<>>)
                            \o (IF IsSome(to_id) THEN << <<"id(b) = $to_id">> >> ELSE <<>>)
        where_str == IF Len(where_clauses) = 0 THEN <<>>
                     ELSE IF Len(where_clauses) = 1 THEN <<" WHERE ">> \o where_clauses[1]
                     ELSE <<" WHERE ">> \o where_clauses[1] \o <<" AND ">> \o where_clauses[2]
        p1 == IF IsSome(from_id) THEN param(NoParams, P_from_id, PInteger(Unwrap(from_id)))
              ELSE NoParams
        p2 == IF IsSome(to_id) THEN param(p1, P_to_id, PInteger(Unwrap(to_id))) ELSE p1
    IN Query(<<"MATCH (a)-">> \o rel_pattern \o <<"->(b)">> \o where_str
                \o <<" RETURN r, id(a) AS from_id, id(b) AS to_id LIMIT ">> \o Display(limit),
             p2)

rel_create_query(r) ==
    LET from_id == Unwrap(parse_i64(Unwrap(flag(r, "from"))))
        to_id == Unwrap(parse_i64(Unwrap(flag(r, "to"))))
        rel_type == Unwrap(flag(r, "type"))
        ends == param(param(NoParams, P_from_id, PInteger(from_id)), P_to_id, PInteger(to_id))
        head == <<"MATCH (a), (b) WHERE id(a) = $from_id AND id(b) = $to_id CREATE (a)-[r:">>
                    \o Quoted(rel_type) \o <<"]->(b)">>
    IN IF IsSome(flag(r, "props"))
       THEN LET props == props_of(r, "props")
            IN Query(head \o <<" SET ">> \o set_clause("r.", keys(props)) \o <<" RETURN r">>,
                     bind_props(ends, props))
       ELSE Query(head \o <<" RETURN r">>, ends)

rel_delete_query(r) ==
    Query(<<"MATCH ()-[r]->() WHERE id(r) = $id DELETE r RETURN count(r) AS deleted">>,
          param(NoParams, P_id, PInteger(Unwrap(parse_i64(Unwrap(arg(r)))))))

\* neo4rs::query(cypher) with the --params object bound
raw_query(r) ==
    Query(Unwrap(arg(r)),
          IF IsSome(flag(r, "params")) THEN bind_props(NoParams, props_of(r, "params"))
          ELSE NoParams)

ping_query == Query(<<"RETURN 1 AS ok">>, NoParams)

fetch_labels_query == Query(<<"CALL db.labels() YIELD label RETURN label ORDER BY label">>, NoParams)

fetch_rel_types_query ==
    Query(<<"CALL db.relationshipTypes() YIELD relationshipType RETURN relationshipType ORDER BY relationshipType">>,
          NoParams)

fetch_indexes_query ==
    Query(<<"SHOW INDEXES YIELD name, type, labelsOrTypes, properties, state">>, NoParams)

fetch_constraints_query ==
    Query(<<"SHOW CONSTRAINTS YIELD name, type, labelsOrTypes, properties">>, NoParams)

node_count_query == Query(<<"MATCH (n) RETURN count(n) AS node_count">>, NoParams)

rel_count_query == Query(<<"MATCH ()-[r]->() RETURN count(r) AS rel_count">>, NoParams)

\* number of queries a command sends one after the other
steps_of(cmd) ==
    CASE cmd = "schema" -> 4
      [] cmd = "schema count" -> 2
      [] OTHER -> 1

\* the k-th query of the command
compile(r, k) ==
    CASE r.cmd = "ping" -> ping_query
      [] r.cmd = "query" -> raw_query(r)
      [] r.cmd = "schema" ->
            (CASE k = 1 -> fetch_labels_query [] k = 2 -> fetch_rel_types_query
               [] k = 3 -> fetch_indexes_query [] OTHER -> fetch_constraints_query)
      [] r.cmd = "schema labels" -> fetch_labels_query
      [] r.cmd = "schema types" -> fetch_rel_types_query
      [] r.cmd = "schema indexes" -> fetch_indexes_query
      [] r.cmd = "schema constraints" -> fetch_constraints_query
      [] r.cmd = "schema count" -> (IF k = 1 THEN node_count_query ELSE rel_count_query)
      [] r.cmd = "node find" -> node_find_query(r)
      [] r.cmd = "node get" -> node_get_query(r)
      [] r.cmd = "node create" -> node_create_query(r)
      [] r.cmd = "node update" -> node_update_query(r)
      [] r.cmd = "node delete" -> node_delete_query(r)
      [] r.cmd = "rel find" -> rel_find_query(r)
      [] r.cmd = "rel create" -> rel_create_query(r)
      [] r.cmd = "rel delete" -> rel_delete_query(r)

---------------------------------------------------------------------------
(* What the store returns: Bolt values and rows                            *)

BInteger(n) == [bt |-> "Integer", n |-> n, s |-> <<>>, items |-> <<>>]

BFloat(text) == [bt |-> "Float", n |-> 0, s |-> text, items |-> <<>>]

\* the floats that are no number of JSON: NaN and the two infinities
NonFinite == {<<"NaN">>, <<"inf">>, <<"-inf">>}

\* json!(v) of an f64, and serde_json's visit_f64: Number::from_f64 holds
\* finite floats only, any other float becomes null
float_to_json(text) == IF text \in NonFinite THEN JNull ELSE JFloat(text)

BBoolean(b) == [bt |-> "Boolean", n |-> IF b THEN 1 ELSE 0, s |-> <<>>, items |-> <<>>]

BString(s) == [bt |-> "String", n |-> 0, s |-> s, items |-> <<>>]

BList(items) == [bt |-> "List", n |-> 0, s |-> <<>>, items |-> items]

BNull == [bt |-> "Null", n |-> 0, s |-> <<>>, items |-> <<>>]

BBytes == [bt |-> "Bytes", n |-> 0, s |-> <<>>, items |-> <<>>]

\* props: sequence of [key, val], one entry per property key
BNode(id, labels, props) ==
    [bt |-> "Node", n |-> id, labels |-> labels, props |-> props]

BRelation(id, start, end, typ, props) ==
    [bt |-> "Relation", n |-> id, start |-> start, end |-> end, typ |-> typ, props |-> props]

\* a row with one named column
Row(col, val) == [col |-> col, val |-> val]

\* row.get::<T>(col) succeeds
row_has(row, col, bt) == row.col = col /\ row.val.bt = bt

---------------------------------------------------------------------------
(* convert.rs                                                              *)

AllOf(items, bt) == \A i \in 1..Len(items) : items[i].bt = bt

\* the first successful decode of a property, in the order the code tries
field_to_json(v, with_lists) ==
    IF v.bt = "Integer" THEN JInt(v.n)
    ELSE IF v.bt = "Float" THEN float_to_json(v.s)
    ELSE IF v.bt = "Boolean" THEN JBool(v.n = 1)
    ELSE IF v.bt = "String" THEN JString(v.s)
    ELSE IF with_lists /\ v.bt = "List" /\ AllOf(v.items, "String")
    THEN JArray(<<>>, [i \in 1..Len(v.items) |-> JString(v.items[i].s)])
    ELSE IF with_lists /\ v.bt = "List" /\ AllOf(v.items, "Integer")
    THEN JArray(<<>>, [i \in 1..Len(v.items) |-> JInt(v.items[i].n)])
    ELSE JNull

node_field_to_json(v) == field_to_json(v, TRUE)

rel_field_to_json(v) == field_to_json(v, FALSE)

K_id == <<"_", "i", "d">>

K_labels == <<"_", "l", "a", "b", "e", "l", "s">>

K_start_node_id == <<"_", "s", "t", "a", "r", "t", "_", "n", "o", "d", "e", "_", "i", "d">>

K_end_node_id == <<"_", "e", "n", "d", "_", "n", "o", "d", "e", "_", "i", "d">>

K_type == <<"_", "t", "y", "p", "e">>

Entry(k, v) == [key |-> k, value |-> v]

\* map.insert(key, field_to_json(..)) for every property key, in turn
RECURSIVE insert_props(_, _, _)
insert_props(m, props, with_lists) ==
    IF Len(props) = 0 THEN m
    ELSE insert_props(MapInsert(m, Entry(props[1].key,
                                         IF with_lists THEN node_field_to_json(props[1].val)
                                         ELSE rel_field_to_json(props[1].val))),
                      Tail(props), with_lists)

node_to_json(node) ==
    LET m1 == MapInsert(<<>>, Entry(K_id, JInt(node.n)))
        m2 == MapInsert(m1, Entry(K_labels,
                    JArray(<<>>, [i \in 1..Len(node.labels) |-> JString(node.labels[i])])))
    IN insert_props(m2, node.props, TRUE)

relation_to_json(rel) ==
    LET m1 == MapInsert(<<>>, Entry(K_id, JInt(rel.n)))
        m2 == MapInsert(m1, Entry(K_start_node_id, JInt(rel.start)))
        m3 == MapInsert(m2, Entry(K_end_node_id, JInt(rel.end)))
        m4 == MapInsert(m3, Entry(K_type, JString(rel.typ)))
    IN insert_props(m4, rel.props, FALSE)

\* Map::get(key)
map_get(m, k) ==
    IF \E i \in 1..Len(m) : m[i].key = k
    THEN Some((m[CHOOSE i \in 1..Len(m) : m[i].key = k]).value)
    ELSE None

\* serde's structural decode of a column value into serde_json::Value;
\* None for a value serde_json cannot hold (bytes), also inside a list.  The
\* raw-query rows of the model hold scalars and lists.
RECURSIVE value_of_bolt(_)
value_of_bolt(v) ==
    CASE v.bt = "Integer" -> Some(JInt(v.n))
      [] v.bt = "Float" -> Some(float_to_json(v.s))
      [] v.bt = "Boolean" -> Some(JBool(v.n = 1))
      [] v.bt = "String" -> Some(JString(v.s))
      [] v.bt = "Null" -> Some(JNull)
      [] v.bt = "List" ->
            LET items == [i \in 1..Len(v.items) |-> value_of_bolt(v.items[i])]
            IN IF \E i \in 1..Len(items) : IsNone(items[i]) THEN None
               ELSE Some(JArray(<<>>, [i \in 1..Len(items) |-> Unwrap(items[i])]))
      [] OTHER -> None

\* row.to::<Value>().unwrap_or(Value::Null)
row_to_json(row) ==
    LET v == value_of_bolt(row.val)
    IN IF IsSome(v) THEN JObject(<<>>, <<Entry(row.col, Unwrap(v))>>) ELSE JNull

---------------------------------------------------------------------------
(* Suggestions (agcli::NextAction) and success envelopes                   *)

ActionParam(name, description, required) ==
    [name |-> name, description |-> description, required |-> required, enum_values |-> <<>>]

NextAction(command, description, params) ==
    [command |-> command, description |-> description, params |-> params]

\* Ok(CommandOutput::new(data).next_actions(actions))
Success(data, actions) == Some([ok |-> TRUE, data |-> data, next_actions |-> actions])

\* v.as_i64() of a JSON value
as_i64(v) == IF v.tag = "Number" /\ v.class \in {"PosInt", "NegInt"} THEN Some(v.n) ELSE None

\* nodes.iter().filter_map(|n| n.get("_id").and_then(|v| v.as_i64()))
RECURSIVE node_ids_of(_)
node_ids_of(nodes) ==
    IF Len(nodes) = 0 THEN <<>>
    ELSE LET v == map_get(nodes[1], K_id)
             i == IF IsSome(v) THEN as_i64(Unwrap(v)) ELSE None
         IN (IF IsSome(i) THEN <<Unwrap(i)>> ELSE <<>>) \o node_ids_of(Tail(nodes))

\* iter.take(n)
take(xs, n) == SubSeq(xs, 1, Min(Len(xs), n))

SuggestionCap == 5

ParamProps == ActionParam("--props", <<"JSON properties">>, TRUE)

ParamTo == ActionParam("--to", <<"Target node ID">>, TRUE)

ParamType == ActionParam("--type", <<"Relationship type">>, TRUE)

node_find_output(r, q, nodes) ==
    LET label == Unwrap(flag(r, "label"))
        ids == take(node_ids_of(nodes), SuggestionCap)
        gets == [i \in 1..Len(ids) |->
                    NextAction(<<"lowmain node get ">> \o Display(ids[i]),
                               <<"Get node ">> \o Display(ids[i]) \o <<" details">>, <<>>)]
    IN Success([cypher |-> q.text, nodes |-> nodes, count |-> Len(nodes), label |-> label],
               gets \o <<NextAction(<<"lowmain node create --label=">> \o label,
                                    <<"Create a new ">> \o label \o <<" node">>,
                                    <<ParamProps>>)>>)

rel_create_from_untyped(id) ==
    NextAction(<<"lowmain rel create --from=">> \o Display(id),
               <<"Create relationship from this node">>, <<ParamTo>>)

rel_create_from(id) ==
    NextAction(<<"lowmain rel create --from=">> \o Display(id),
               <<"Create relationship from this node">>, <<ParamTo, ParamType>>)

node_get_output(id, node) ==
    Success([node |-> node_to_json(node)],
            << NextAction(<<"lowmain node update ">> \o Display(id), <<"Update this node">>,
                          <<ActionParam("--set", <<"JSON properties to set">>, TRUE)>>),
               NextAction(<<"lowmain node delete ">> \o Display(id), <<"Delete this node">>, <<>>),
               NextAction(<<"lowmain rel find --from=">> \o Display(id),
                          <<"Find outgoing relationships">>, <<>>),
               NextAction(<<"lowmain rel find --to=">> \o Display(id),
                          <<"Find incoming relationships">>, <<>>),
               rel_create_from(id) >>)

node_create_output(r, node) ==
    LET label == Unwrap(flag(r, "label"))
        new_id == node.n
    IN Success([created |-> TRUE, node |-> node_to_json(node)],
               << NextAction(<<"lowmain node get ">> \o Display(new_id), <<"View created node">>, <<>>),
                  rel_create_from(new_id),
                  NextAction(<<"lowmain node find --label=">> \o label,
                             <<"Find all ">> \o label \o <<" nodes">>, <<>>) >>)

node_update_output(id, node) ==
    Success([updated |-> TRUE, node |-> node_to_json(node)],
            << NextAction(<<"lowmain node get ">> \o Display(id), <<"View updated node">>, <<>>),
               NextAction(<<"lowmain node delete ">> \o Display(id), <<"Delete this node">>, <<>>) >>)

ActionSchema(description) == NextAction(<<"lowmain schema">>, description, <<>>)

ActionSchemaTypes == NextAction(<<"lowmain schema types">>, <<"View relationship types">>, <<>>)

node_delete_output(r, id) ==
    Success([deleted |-> TRUE, id |-> id, detach |-> IsSome(flag(r, "detach"))],
            << ActionSchema(<<"Explore database structure">>),
               NextAction(<<"lowmain node find">>, <<"Find nodes">>,
                          <<ActionParam("--label", <<"Node label">>, TRUE)>>) >>)

rel_find_output(rels) ==
    Success([relationships |-> rels, count |-> Len(rels)],
            << NextAction(<<"lowmain rel create">>, <<"Create a relationship">>,
                          << ActionParam("--from", <<"Source node ID">>, TRUE), ParamTo, ParamType >>),
               ActionSchemaTypes >>)

rel_create_output(from_id, to_id, rel) ==
    Success([created |-> TRUE, relationship |-> relation_to_json(rel)],
            << NextAction(<<"lowmain node get ">> \o Display(from_id), <<"View source node">>, <<>>),
               NextAction(<<"lowmain node get ">> \o Display(to_id), <<"View target node">>, <<>>),
               NextAction(<<"lowmain rel delete ">> \o Display(rel.n),
                          <<"Delete this relationship">>, <<>>) >>)

rel_delete_output(id) ==
    Success([deleted |-> TRUE, id |-> id],
            << NextAction(<<"lowmain rel find">>, <<"Find relationships">>, <<>>),
               ActionSchemaTypes >>)

ActionQuery(description, param_description) ==
    NextAction(<<"lowmain query">>, description, <<ActionParam("cypher", param_description, TRUE)>>)

query_write_output(cypher) ==
    Success([executed |-> TRUE, cypher |-> cypher, mode |-> "write"],
            << ActionSchema(<<"Check schema after mutation">>),
               ActionQuery(<<"Run another query">>, <<>>) >>)

query_read_output(cypher, collected, limit) ==
    LET count == Len(collected)
        truncated == count >= limit
    IN Success([cypher |-> cypher, rows |-> collected, count |-> count,
                truncated |-> truncated, limit |-> limit],
               << ActionQuery(<<"Run another query">>, <<>>),
                  ActionSchema(<<"Explore database structure">>) >>)

ping_output(r, e) ==
    LET info == connection_info(r, e)
    IN Success([connected |-> TRUE, uri |-> info[1], db |-> info[2]],
               << ActionSchema(<<"Explore database structure">>),
                  ActionQuery(<<"Execute a Cypher query">>, <<"Cypher query to run">>),
                  NextAction(<<"lowmain node find">>, <<"Find nodes by label">>,
                             <<ActionParam("--label", <<"Node label to search">>, TRUE)>>) >>)

find_label_actions(labels) ==
    [i \in 1..Len(labels) |->
        NextAction(<<"lowmain node find --label=">> \o labels[i],
                   <<"Find ">> \o labels[i] \o <<" nodes">>, <<>>)]

schema_labels_output(labels) == Success([labels |-> labels], find_label_actions(labels))

schema_types_output(types) ==
    Success([relationship_types |-> types],
            [i \in 1..Len(types) |->
                NextAction(<<"lowmain rel find --type=">> \o types[i],
                           <<"Find ">> \o types[i] \o <<" relationships">>, <<>>)])

schema_indexes_output(indexes) ==
    Success([indexes |-> indexes],
            <<NextAction(<<"lowmain schema constraints">>, <<"View constraints">>, <<>>)>>)

schema_constraints_output(constraints) ==
    Success([constraints |-> constraints],
            <<NextAction(<<"lowmain schema indexes">>, <<"View indexes">>, <<>>)>>)

schema_count_output(node_count, rel_count) ==
    Success([node_count |-> node_count, relationship_count |-> rel_count],
            << NextAction(<<"lowmain schema labels">>, <<"View labels">>, <<>>),
               ActionSchemaTypes >>)

schema_output(labels, types, indexes, constraints) ==
    Success([labels |-> labels, relationship_types |-> types, indexes |-> indexes,
             constraints |-> constraints],
            find_label_actions(labels)
                \o << NextAction(<<"lowmain node create">>, <<"Create a new node">>,
                                 << [name |-> "--label", description |-> <<"Node label">>,
                                     required |-> TRUE, enum_values |-> labels],
                                    ParamProps >>),
                      ActionQuery(<<"Execute a Cypher query">>, <<>>) >>)

---------------------------------------------------------------------------
(* The handlers, between two awaits on the store                           *)

\* the handler's own state
Cur ==
    [ pc |-> pc, calls |-> calls, query |-> query, step |-> step, rows |-> rows,
      parts |-> parts, err |-> err, outcome |-> outcome ]

\* the mutant notes the error and lets the handler go on
Failed_and_went_on(S, e) == [S EXCEPT !.err = e]

\* return Err(e.into())
Failed(S, e) == [S EXCEPT !.pc = "done", !.err = e, !.outcome = Failure(e)]

\* return Ok(output)
Finished(S, out) == [S EXCEPT !.pc = "done", !.outcome = out]

\* the mutant ignores --write
is_write_ignored(r) == FALSE

\* let is_write = req.flag("write").is_some()
is_write(r) == r.cmd = "query" /\ IsSome(flag(r, "write"))

\* graph.execute(q).await, or graph.run(q).await of a write-mode raw query
Sent(S, r, k) ==
    [S EXCEPT !.pc = IF is_write(r) THEN "running" ELSE "executing",
              !.step = k,
              !.query = Some(compile(r, k)),
              !.rows = <<>>,
              !.calls = Append(@, IF is_write(r) THEN "run" ELSE "execute")]

\* result.next().await
Polled(S) == [S EXCEPT !.pc = "fetching", !.calls = Append(@, "next")]

\* the text of the error of a failed row.get::<T>(column)
DeError == <<"<neo4rs deserialization error>">>

\* the mutant renders the parsed id instead of echoing the argument
id_str_rendered(r) == Display(Unwrap(parse_i64(Unwrap(arg(r)))))

\* let id_str = req.arg(0): the id argument as it was typed
id_str(r) == Unwrap(arg(r))

\* the parsed positional id
id_of(r) == Unwrap(parse_i64(Unwrap(arg(r))))

\* how the handler reads the rows of its k-th query
shape(r, k) ==
    CASE r.cmd \in {"node find", "rel find", "schema", "schema labels", "schema types",
                    "schema indexes", "schema constraints"} -> "collect"
      [] r.cmd = "query" -> "collect_limit"
      [] r.cmd \in {"node get", "node create", "node update", "rel create"} -> "first"
      [] r.cmd \in {"node delete", "rel delete", "schema count"} -> "count"
      [] r.cmd = "ping" -> "ping"

\* what a collecting loop pushes for one row
collected(r, k, row) ==
    CASE r.cmd = "node find" ->
            IF row_has(row, "n", "Node") THEN <<node_to_json(row.val)>> ELSE <<>>
      [] r.cmd = "rel find" ->
            IF row_has(row, "r", "Relation") THEN <<relation_to_json(row.val)>> ELSE <<>>
      [] r.cmd = "schema labels" \/ (r.cmd = "schema" /\ k = 1) ->
            IF row_has(row, "label", "String") THEN <<row.val.s>> ELSE <<>>
      [] r.cmd = "schema types" \/ (r.cmd = "schema" /\ k = 2) ->
            IF row_has(row, "relationshipType", "String") THEN <<row.val.s>> ELSE <<>>
      [] OTHER -> <<row_to_json(row)>>

\* the success envelope of a command whose collecting loops have all ended
collect_output(r, S, all) ==
    CASE r.cmd = "node find" -> node_find_output(r, Unwrap(S.query), all[1])
      [] r.cmd = "rel find" -> rel_find_output(all[1])
      [] r.cmd = "schema labels" -> schema_labels_output(all[1])
      [] r.cmd = "schema types" -> schema_types_output(all[1])
      [] r.cmd = "schema indexes" -> schema_indexes_output(all[1])
      [] r.cmd = "schema constraints" -> schema_constraints_output(all[1])
      [] r.cmd = "schema" -> schema_output(all[1], all[2], all[3], all[4])

\* the mutant takes an absent or unreadable count for one
count_of_or_one(item, column) ==
    IF IsSome(item) /\ row_has(Unwrap(item), column, "Integer") THEN Unwrap(item).val.n ELSE 1

\* r.get(column).ok() of the optional row, unwrap_or(0)
count_of(item, column) ==
    IF IsSome(item) /\ row_has(Unwrap(item), column, "Integer") THEN Unwrap(item).val.n ELSE 0

\* the mutant stops one row late
keeps_collecting_late(got, limit) == ~(Len(got) > limit)

\* if rows.len() >= limit { break; }
keeps_collecting(got, limit) == ~(Len(got) >= limit)

\* the handler from the return of result.next() to its next await or its end;
\* item is Some(row) or None when the stream has ended
\* the mutant reports the missing row as a relationship that was not found
no_relationship_not_found == AppError("RelNotFound", <<"CREATE did not return a relationship">>)

\* .ok_or(AppError::QueryFailed { .. }) of rel create
no_relationship ==
    AppError("QueryFailed",
             <<"CREATE did not return a relationship ">> \o MisreadDash
                \o <<" check that both nodes exist">>)

on_row(S, r, e, item) ==
    CASE shape(r, S.step) = "collect" ->
            IF IsSome(item)
            THEN Polled([S EXCEPT !.rows = @ \o collected(r, S.step, Unwrap(item))])
            ELSE IF S.step < steps_of(r.cmd)
            THEN Sent([S EXCEPT !.parts = Append(@, S.rows)], r, S.step + 1)
            ELSE Finished(S, collect_output(r, S, Append(S.parts, S.rows)))
      [] shape(r, S.step) = "collect_limit" ->
            IF IsSome(item) /\ keeps_collecting(S.rows, limit_of(r))
            THEN Polled([S EXCEPT !.rows = Append(@, row_to_json(Unwrap(item)))])
            ELSE Finished(S, query_read_output(Unwrap(arg(r)), S.rows, limit_of(r)))
      [] shape(r, S.step) = "first" ->
            IF IsNone(item)
            THEN Failed(S,
                    CASE r.cmd \in {"node get", "node update"} ->
                            AppError("NodeNotFound", id_str(r))
                      [] r.cmd = "node create" ->
                            AppError("QueryFailed", <<"CREATE did not return a node">>)
                      [] r.cmd = "rel create" -> no_relationship)
            ELSE IF r.cmd = "rel create"
            THEN IF row_has(Unwrap(item), "r", "Relation")
                 THEN Finished(S, rel_create_output(Unwrap(parse_i64(Unwrap(flag(r, "from")))),
                                                    Unwrap(parse_i64(Unwrap(flag(r, "to")))),
                                                    Unwrap(item).val))
                 ELSE Failed(S, AppError("QueryFailed", DeError))
            ELSE IF ~row_has(Unwrap(item), "n", "Node")
            THEN Failed(S, AppError("QueryFailed", DeError))
            ELSE Finished(S,
                    CASE r.cmd = "node get" -> node_get_output(id_of(r), Unwrap(item).val)
                      [] r.cmd = "node create" -> node_create_output(r, Unwrap(item).val)
                      [] r.cmd = "node update" -> node_update_output(id_of(r), Unwrap(item).val))
      [] shape(r, S.step) = "count" ->
            IF r.cmd = "schema count"
            THEN IF S.step = 1
                 THEN Sent([S EXCEPT !.parts = <<count_of(item, "node_count")>>], r, 2)
                 ELSE Finished(S, schema_count_output(S.parts[1], count_of(item, "rel_count")))
            ELSE IF count_of(item, "deleted") = 0
            THEN Failed(S, AppError(IF r.cmd = "node delete" THEN "NodeNotFound" ELSE "RelNotFound",
                                    id_str(r)))
            ELSE Finished(S, IF r.cmd = "node delete" THEN node_delete_output(r, id_of(r))
                             ELSE rel_delete_output(id_of(r)))
      [] shape(r, S.step) = "ping" -> Finished(S, ping_output(r, e))

---------------------------------------------------------------------------
(* Inputs: requests, environments, and what the store may answer           *)

Obj1(k, v) == <<Punct("{"), ValueTok(JString(k)), Punct(":"), ValueTok(v), Punct("}")>>

Obj2(k1, v1, k2, v2) ==
    <<Punct("{"), ValueTok(JString(k1)), Punct(":"), ValueTok(v1), Punct(","),
      ValueTok(JString(k2)), Punct(":"), ValueTok(v2), Punct("}")>>

\* {"a"   (cut short)
J_bad == <<Punct("{"), ValueTok(JString(<<"a">>))>>

\* {}
J_empty == <<Punct("{"), Punct("}")>>

\* {"a":1}
J_a1 == Obj1(<<"a">>, JInt(1))

\* {"a":"s"}
J_as == Obj1(<<"a">>, JString(<<"s">>))

\* {"b`":true}
J_bt == Obj1(<<"b", BT>>, JBool(TRUE))

\* {"b":1.5,"a":null}
J_two == Obj2(<<"b">>, JFloat(<<"1.5">>), <<"a">>, JNull)

\* {"c":true,"a":2}
J_flag == Obj2(<<"c">>, JBool(TRUE), <<"a">>, JInt(2))

\* {"_id":"s"}
J_id == Obj1(<<"_", "i", "d">>, JString(<<"s">>))

\* {"a":[1],"b":9223372036854775808,"d":1.0,"f":{"k":null}}
J_kinds ==
    << Punct("{"),
       ValueTok(JString(<<"a">>)), Punct(":"), ValueTok(JArray(<<"[1]">>, <<JInt(1)>>)), Punct(","),
       ValueTok(JString(<<"b">>)), Punct(":"), ValueTok(JBigInt(<<"9223372036854775808">>)), Punct(","),
       ValueTok(JString(<<"d">>)), Punct(":"), ValueTok(JFloat(<<"1.0">>)), Punct(","),
       ValueTok(JString(<<"f">>)), Punct(":"),
       ValueTok(JObject(<<"{\"k\":null}">>, <<[key |-> <<"k">>, value |-> JNull]>>)),
       Punct("}") >>

\* {"a":1,"B":2}
J_case == Obj2(<<"a">>, JInt(1), <<"B">>, JInt(2))

\* {"U+00E9":1,"U+00E8":2}, two keys that differ in their second byte only
J_accent == Obj2(<<"U+00E9">>, JInt(1), <<"U+00E8">>, JInt(2))

\* {"id":2}
J_idkey == Obj1(P_id, JInt(2))

\* {"to_id":1,"from_id":2}
J_ends == Obj2(P_to_id, JInt(1), P_from_id, JInt(2))

JsonInputs == {J_bad, J_empty, J_a1, J_as, J_bt, J_two, J_flag, J_id, J_kinds, J_idkey, J_case,
     J_accent}

Opt(S) == {None} \cup {Some(x) : x \in S}

LabelInputs == {<<"P">>, <<"a", BT, "b">>}

WhereInputs ==
    { <<"k", "=", "v">>, <<"k">>, <<"k", "=", "v", "=", "w">>, <<"k", BT, "=", "w">> }

\* 9223372036854775808, the first number above i64::MAX
BigId == I64_MIN

\* 18446744073709551616, the first number above usize::MAX
BigLimit == SubSeq(USIZE_MAX, 1, 19) \o <<"6">>

IdInputs == {<<"1">>, <<"0", "2">>, <<"x">>, BigId}

TypeInputs == {<<"T">>, <<"T", BT, "x">>}

CypherInput == <<"MATCH (n) RETURN n">>

Body(cmd, a, over) == [cmd |-> cmd, arg0 |-> a, flags |-> With(NoFlags, over)]

Bodies ==
    { Body(c, None, <<>>) :
        c \in {"ping", "schema", "schema labels", "schema types", "schema indexes",
               "schema constraints", "schema count"} }
    \cup { Body("node find", None, [label |-> l, where |-> w, limit |-> n]) :
            l \in Opt(LabelInputs), w \in Opt(WhereInputs),
            n \in Opt({<<"2">>, <<"x">>, BigLimit}) }
    \cup { Body(c, a, <<>>) : c \in {"node get", "rel delete"}, a \in Opt(IdInputs) }
    \cup { Body("node create", None, [label |-> l, props |-> j]) :
            l \in Opt(LabelInputs), j \in Opt(JsonInputs) }
    \cup { Body("node update", a, [set |-> j]) : a \in Opt(IdInputs), j \in Opt(JsonInputs) }
    \cup { Body("node delete", a, [detach |-> d]) : a \in Opt(IdInputs), d \in Opt({<<>>}) }
    \cup { Body("rel find", None, [from |-> f, to |-> t, type |-> y, limit |-> n]) :
            f \in Opt({<<"1">>, <<"x">>}), t \in Opt({<<"2">>, <<"x">>}),
            y \in Opt(TypeInputs), n \in Opt({<<"2">>}) }
    \cup { Body("rel create", None, [from |-> f, to |-> t, type |-> y, props |-> j]) :
            f \in Opt({<<"1">>, <<"x">>}), t \in Opt({<<"2">>, <<"x">>}),
            y \in Opt(TypeInputs), j \in Opt({J_bad, J_empty, J_a1, J_as, J_flag, J_kinds, J_ends}) }
    \cup { Body("query", a, [limit |-> n, write |-> w, params |-> j]) :
            a \in Opt({CypherInput}), n \in Opt({<<"0">>, <<"1">>, <<"2">>, <<"x">>}),
            w \in Opt({<<>>}), j \in Opt({J_bad, J_a1, J_as, J_two, J_kinds}) }

\* where the connection values come from: every combination of flag and
\* environment variable, each present or absent
ConnAll ==
    { [ flags |-> [uri |-> fu, user |-> fn, password |-> fp, db |-> fd],
        env |-> [NEO4J_URI |-> eu, NEO4J_USER |-> en, NEO4J_PASSWORD |-> ep, NEO4J_DB |-> ed] ] :
        fu \in Opt({<<"bolt://flag:7687">>}), fn \in Opt({<<"flag-user">>}),
        fp \in Opt({<<"flag-pw">>}), fd \in Opt({<<"flag-db">>}),
        eu \in Opt({<<"bolt://env:7687">>}), en \in Opt({<<"env-user">>}),
        ep \in Opt({<<"env-pw">>}), ed \in Opt({<<"env-db">>}) }

\* the combinations that differ only in where the password comes from
ConnPassword ==
    { c \in ConnAll :
        /\ \A f \in {"uri", "user", "db"} : IsNone(c.flags[f])
        /\ \A k \in {"NEO4J_URI", "NEO4J_USER", "NEO4J_DB"} : IsNone(c.env[k]) }

Input(b, c) == [req |-> Request(b.cmd, b.arg0, With(b.flags, c.flags)), env |-> c.env]

Inputs ==
    { Input(b, c) : b \in Bodies, c \in ConnPassword }
    \cup { Input(Body("ping", None, <<>>), c) : c \in ConnAll }

\* descriptions of the driver errors of a command run
DriverErrors ==
    { <<"Connection", "refused">>, <<"Invalid input">>, <<"ConstraintValidationFailed">>,
      <<" timed out ">> }

NodeP1 == BNode(1, <<<<"P">>>>, <<[key |-> <<"a">>, val |-> BInteger(1)]>>)

NodeP2 == BNode(2, <<<<"P">>>>, <<[key |-> <<"a">>, val |-> BString(<<"s">>)]>>)

Rel5 == BRelation(5, 1, 2, <<"T">>, <<>>)

Rel6 == BRelation(6, 2, 1, <<"T">>, <<[key |-> <<"a">>, val |-> BInteger(1)]>>)

\* a node and a relationship with a property of every kind of value
MixedProps ==
    << [key |-> <<"a">>, val |-> BList(<<BString(<<"x">>), BString(<<"y">>)>>)],
       [key |-> <<"b">>, val |-> BList(<<BInteger(1)>>)],
       [key |-> <<"d">>, val |-> BBytes],
       [key |-> <<"f">>, val |-> BFloat(<<"1.5">>)],
       [key |-> <<"k">>, val |-> BBoolean(TRUE)],
       [key |-> <<"m">>, val |-> BList(<<BString(<<"x">>), BInteger(1)>>)],
       [key |-> <<"n">>, val |-> BFloat(<<"NaN">>)] >>

NodeMixed == BNode(3, <<<<"P">>, <<"Q">>>>, MixedProps)

RelMixed == BRelation(7, 1, 2, <<"T">>, MixedProps)

\* a node and a relationship with properties named like the keys the
\* conversion adds
NodeReserved ==
    BNode(4, <<<<"P">>>>,
          << [key |-> K_id, val |-> BInteger(7)], [key |-> K_labels, val |-> BString(<<"x">>)] >>)

RelReserved ==
    BRelation(8, 1, 2, <<"T">>,
              << [key |-> K_type, val |-> BString(<<"U">>)],
                 [key |-> K_start_node_id, val |-> BInteger(9)] >>)

\* the rows the store may return for the k-th query of the command
RowChoices(r, k) ==
    CASE r.cmd = "node find" -> {Row("n", NodeP1), Row("n", NodeP2), Row("n", BNull)}
      [] r.cmd = "node get" ->
            {Row("n", NodeP1), Row("n", NodeMixed), Row("n", NodeReserved), Row("n", BNull)}
      [] r.cmd \in {"node create", "node update"} -> {Row("n", NodeP1), Row("n", BNull)}
      [] r.cmd \in {"node delete", "rel delete"} ->
            {Row("deleted", BInteger(0)), Row("deleted", BInteger(1)), Row("deleted", BNull)}
      [] r.cmd = "rel find" -> {Row("r", Rel5), Row("r", Rel6), Row("r", RelMixed), Row("r", BNull)}
      [] r.cmd = "rel create" -> {Row("r", Rel5), Row("r", RelReserved), Row("r", BNull)}
      [] r.cmd = "query" ->
            {Row("x", BInteger(1)), Row("x", BBytes), Row("x", BList(<<BList(<<BInteger(1)>>), BFloat(<<"inf">>)>>))}
      [] r.cmd = "ping" -> {Row("ok", BInteger(1))}
      [] r.cmd = "schema labels" \/ (r.cmd = "schema" /\ k = 1) ->
            {Row("label", BString(<<"P">>)), Row("label", BNull)}
      [] r.cmd = "schema types" ->
            {Row("relationshipType", BString(<<"T">>)), Row("relationshipType", BNull)}
      [] r.cmd = "schema" /\ k = 2 -> {Row("relationshipType", BString(<<"T">>))}
      [] r.cmd \in {"schema", "schema indexes", "schema constraints"} ->
            {Row("name", BString(<<"x">>))}
      [] r.cmd = "schema count" ->
            IF k = 1 THEN {Row("node_count", BInteger(2))} ELSE {Row("rel_count", BInteger(1))}

\* longer lists of distinct label or relationship type names
NameRows(column, n) == [i \in 1..n |-> Row(column, BString(<<"L", DigitChar(i)>>))]

LongStreams(r, k) ==
    IF r.cmd = "schema labels" \/ (r.cmd = "schema" /\ k = 1)
    THEN {NameRows("label", n) : n \in (MaxRows + 1)..MaxNames}
    ELSE IF r.cmd = "schema types" \/ (r.cmd = "schema" /\ k = 2)
    THEN {NameRows("relationshipType", n) : n \in (MaxRows + 1)..MaxNames}
    ELSE {}

Streams(r, k) == SeqsUpTo(RowChoices(r, k), MaxRows) \cup LongStreams(r, k)

---------------------------------------------------------------------------
(* The run of one command                                                  *)

Init ==
    /\ \E i \in Inputs : req = i.req /\ env = i.env
    /\ pc = "start"
    /\ calls = <<>>
    /\ config = None
    /\ query = None
    /\ stream = <<>>
    /\ fetched = 0
    /\ rows = <<>>
    /\ step = 0
    /\ parts = <<>>
    /\ msg = <<>>
    /\ err = NoError
    /\ outcome = None
    /\ store = <<>>

\* the handler's state after a step
Becomes(S) ==
    /\ pc' = S.pc
    /\ calls' = S.calls
    /\ query' = S.query
    /\ step' = S.step
    /\ rows' = S.rows
    /\ parts' = S.parts
    /\ err' = S.err
    /\ outcome' = S.outcome

\* the handler from its entry to Graph::connect(config).await
started(S, r, e) ==
    IF IsSome(before_connect(r)) THEN Failed(S, Unwrap(before_connect(r)))
    ELSE IF ~connection_config(r, e).ok THEN Failed(S, connection_config(r, e).error)
    ELSE [S EXCEPT !.pc = "connecting", !.calls = Append(@, "connect")]

Start ==
    /\ pc = "start"
    /\ Becomes(started(Cur, req, env))
    /\ config' = IF started(Cur, req, env).pc = "connecting"
                 THEN Some(connection_config(req, env).config) ELSE config
    /\ UNCHANGED <<store, req, env, stream, fetched, msg>>

\* a store call fails: map_err(map_neo4j_error)?
StoreFails(at) ==
    /\ pc = at
    /\ \E d \in DriverErrors :
          /\ msg' = d
          /\ Becomes(Failed(Cur, map_neo4j_error(d)))
    /\ UNCHANGED <<store, req, env, config, stream, fetched>>

ConnectFails == StoreFails("connecting")

\* the handler from the graph returned by from_request to its first query
connected(S, r) ==
    IF IsSome(after_connect(r)) THEN Failed(S, Unwrap(after_connect(r)))
    ELSE Sent(S, r, 1)

ConnectOk ==
    /\ pc = "connecting"
    /\ Becomes(connected(Cur, req))
    /\ UNCHANGED <<store, req, env, config, stream, fetched, msg>>

ExecuteFails == StoreFails("executing")

\* graph.execute succeeds: the store holds a result stream, the handler
\* asks for its first row
ExecuteOk ==
    /\ pc = "executing"
    /\ \E st \in Streams(req, step) : stream' = st
    /\ fetched' = 0
    /\ Becomes(Polled(Cur))
    /\ UNCHANGED <<store, req, env, config, msg>>

RunFails == StoreFails("running")

\* graph.run succeeds: no row is read
RunOk ==
    /\ pc = "running"
    /\ Becomes(Finished(Cur, query_write_output(Unwrap(arg(req)))))
    /\ UNCHANGED <<store, req, env, config, stream, fetched, msg>>

NextFails == StoreFails("fetching")

\* result.next() returns the next row of the stream, or None at its end
NextRow ==
    /\ pc = "fetching"
    /\ LET item == IF fetched < Len(stream) THEN Some(stream[fetched + 1]) ELSE None
       IN /\ Becomes(on_row(Cur, req, env, item))
          /\ fetched' = IF IsSome(item) THEN fetched + 1 ELSE fetched
    /\ UNCHANGED <<store, req, env, config, stream, msg>>

Next ==
    \/ Start
    \/ ConnectFails
    \/ ConnectOk
    \/ ExecuteFails
    \/ ExecuteOk
    \/ RunFails
    \/ RunOk
    \/ NextFails
    \/ NextRow

Spec == Init /\ [][Next]_vars

---------------------------------------------------------------------------
(* The classifier on its own: every description up to MaxDescLen pieces,   *)
(* and every error kind raised directly                                    *)

Payloads == {<<"4", "2">>, <<"x">>, <<"refused">>}

InitClassify ==
    /\ req = Request("ping", None, NoFlags)
    /\ env = NoEnv
    /\ pc = "error"
    /\ calls = <<>>
    /\ config = None
    /\ query = None
    /\ stream = <<>>
    /\ fetched = 0
    /\ rows = <<>>
    /\ step = 0
    /\ parts = <<>>
    /\ msg \in Descriptions
    /\ err = NoError
    /\ outcome = None
    /\ store = <<>>

\* map_neo4j_error(err) on the description of a driver error
Classify ==
    /\ pc = "error"
    /\ err' = map_neo4j_error(msg)
    /\ pc' = "classified"
    /\ UNCHANGED <<store, req, env, calls, config, query, stream, fetched, rows, step, parts, msg, outcome>>

\* an AppError built by the program itself
Raise ==
    /\ pc = "error"
    /\ msg = <<>>
    /\ \E k \in Kinds, p \in Payloads :
          err' = AppError(k, IF k = "ConnectionNotConfigured" THEN <<>> ELSE p)
    /\ pc' = "raised"
    /\ UNCHANGED <<store, req, env, calls, config, query, stream, fetched, rows, step, parts, msg, outcome>>

\* CommandError::from(err)
IntoCommandError ==
    /\ pc \in {"classified", "raised"}
    /\ outcome' = Failure(err)
    /\ pc' = "done"
    /\ UNCHANGED <<store, req, env, calls, config, query, stream, fetched, rows, step, parts, msg, err>>

NextClassify == Classify \/ Raise \/ IntoCommandError

SpecClassify == InitClassify /\ [][NextClassify]_vars

---------------------------------------------------------------------------
(* The graph store, as far as the handlers' statements go.  The store      *)
(* reads a statement from the text alone: quoted identifiers, numbers and  *)
(* the fixed text between them.  A backtick inside a quoted identifier is  *)
(* written twice; a single one ends the identifier.                        *)

Token(kind, s, n) == [kind |-> kind, s |-> s, n |-> n]

\* position of the backtick that closes the identifier opened before j, or 0
RECURSIVE ident_end(_, _)
ident_end(t, j) ==
    IF j > Len(t) THEN 0
    ELSE IF t[j] # BT THEN ident_end(t, j + 1)
    ELSE IF j + 1 <= Len(t) /\ t[j + 1] = BT THEN ident_end(t, j + 2)
    ELSE j

\* the identifier a quoted region stands for: doubled backticks are single
RECURSIVE unescape(_)
unescape(s) ==
    IF Len(s) = 0 THEN <<>>
    ELSE IF Len(s) >= 2 /\ s[1] = BT /\ s[2] = BT THEN <<BT>> \o unescape(SubSeq(s, 3, Len(s)))
    ELSE <<s[1]>> \o unescape(Tail(s))

\* last position of the run of digits that starts at i
RECURSIVE digits_end(_, _)
digits_end(t, i) ==
    IF i + 1 <= Len(t) /\ t[i + 1] \in DigitChars THEN digits_end(t, i + 1) ELSE i

\* the tokens of a statement text from position i on
RECURSIVE lex(_, _)
lex(t, i) ==
    IF i > Len(t) THEN <<>>
    ELSE IF t[i] = BT
    THEN LET e == ident_end(t, i + 1)
         IN IF e = 0 \/ e = i + 1 THEN <<Token("bad", <<>>, 0)>>
            ELSE <<Token("id", unescape(SubSeq(t, i + 1, e - 1)), 0)>> \o lex(t, e + 1)
    ELSE IF t[i] \in DigitChars
    THEN LET e == digits_end(t, i)
         IN <<Token("num", <<>>, DigitsValue(SubSeq(t, i, e)))>> \o lex(t, e + 1)
    ELSE <<Token("text", <<t[i]>>, 0)>> \o lex(t, i + 1)

IsText(tk, s) == tk.kind = "text" /\ tk.s = <<s>>

\* var.`key` = $`name` {, var.`key` = $`name`}: the assignments of a SET
\* clause, or None when the tokens are no such list
RECURSIVE assignments(_, _)
assignments(toks, var) ==
    IF Len(toks) < 4 THEN None
    ELSE IF ~(IsText(toks[1], var) /\ toks[2].kind = "id" /\ IsText(toks[3], " = $")
                /\ toks[4].kind = "id") THEN None
    ELSE LET one == [key |-> toks[2].s, name |-> toks[4].s]
         IN IF Len(toks) = 4 THEN Some(<<one>>)
            ELSE IF ~IsText(toks[5], ", ") THEN None
            ELSE LET more == assignments(SubSeq(toks, 6, Len(toks)), var)
                 IN IF IsNone(more) THEN None ELSE Some(<<one>> \o Unwrap(more))

Statement(op) ==
    [ op |-> op, label |-> <<>>, key |-> None, limit |-> 0, sets |-> <<>>, detach |-> FALSE ]

SyntaxError == Statement("error")

\* CREATE / MATCH ... SET <assignments> RETURN <var>
with_sets(stmt, toks, var, ret) ==
    LET n == Len(toks)
        a == IF n >= 2 THEN assignments(SubSeq(toks, 1, n - 1), var) ELSE None
    IN IF n >= 2 /\ IsText(toks[n], ret) /\ IsSome(a)
       THEN [stmt EXCEPT !.sets = Unwrap(a)]
       ELSE SyntaxError

\* the statement a query text stands for
parse(text) ==
    LET t == lex(text, 1)
        n == Len(t)
        rest(i) == SubSeq(t, i, n)
    IN IF n = 0 THEN SyntaxError
       ELSE IF n = 1 /\ IsText(t[1], "MATCH (n) WHERE elementId(n) = toString($id) OR id(n) = $id RETURN n")
       THEN Statement("get")
       ELSE IF n = 1 /\ IsText(t[1], "MATCH (n) WHERE id(n) = $id DELETE n RETURN count(n) AS deleted")
       THEN Statement("delete")
       ELSE IF n = 1 /\ IsText(t[1], "MATCH (n) WHERE id(n) = $id DETACH DELETE n RETURN count(n) AS deleted")
       THEN [Statement("delete") EXCEPT !.detach = TRUE]
       ELSE IF n = 1 /\ IsText(t[1], "MATCH ()-[r]->() WHERE id(r) = $id DELETE r RETURN count(r) AS deleted")
       THEN Statement("delete rel")
       ELSE IF n = 4 /\ IsText(t[1], "MATCH (n:") /\ t[2].kind = "id"
                 /\ IsText(t[3], ") RETURN n LIMIT ") /\ t[4].kind = "num"
       THEN [Statement("find") EXCEPT !.label = t[2].s, !.limit = t[4].n]
       ELSE IF n = 6 /\ IsText(t[1], "MATCH (n:") /\ t[2].kind = "id"
                 /\ IsText(t[3], ") WHERE n.") /\ t[4].kind = "id"
                 /\ IsText(t[5], " = $val RETURN n LIMIT ") /\ t[6].kind = "num"
       THEN [Statement("find") EXCEPT !.label = t[2].s, !.key = Some(t[4].s), !.limit = t[6].n]
       ELSE IF n = 3 /\ IsText(t[1], "CREATE (n:") /\ t[2].kind = "id" /\ IsText(t[3], ") RETURN n")
       THEN [Statement("create") EXCEPT !.label = t[2].s]
       ELSE IF n > 3 /\ IsText(t[1], "CREATE (n:") /\ t[2].kind = "id" /\ IsText(t[3], ") SET ")
       THEN with_sets([Statement("create") EXCEPT !.label = t[2].s], rest(4), "n.", " RETURN n")
       ELSE IF n > 1 /\ IsText(t[1], "MATCH (n) WHERE id(n) = $id SET ")
       THEN with_sets(Statement("update"), rest(2), "n.", " RETURN n")
       ELSE IF n = 4 /\ IsText(t[1], "MATCH (a), (b) WHERE id(a) = $from_id AND id(b) = $to_id CREATE (a)-[r:")
                  /\ t[2].kind = "id" /\ IsText(t[3], "]->(b)") /\ IsText(t[4], " RETURN r")
       THEN [Statement("create rel") EXCEPT !.label = t[2].s]
       ELSE IF n > 4 /\ IsText(t[1], "MATCH (a), (b) WHERE id(a) = $from_id AND id(b) = $to_id CREATE (a)-[r:")
                  /\ t[2].kind = "id" /\ IsText(t[3], "]->(b)") /\ IsText(t[4], " SET ")
       THEN with_sets([Statement("create rel") EXCEPT !.label = t[2].s], rest(5), "r.", " RETURN r")
       ELSE SyntaxError

\* a graph: its nodes and its relationships, each in the order of their ids
Graph(nodes, rels) == [nodes |-> nodes, rels |-> rels]

\* the value a bound parameter stands for
bolt_of(p) ==
    CASE p.type = "String" -> BString(p.s)
      [] p.type = "Integer" -> BInteger(p.n)
      [] p.type = "Float" -> BFloat(p.s)
      [] p.type = "Boolean" -> BBoolean(p.n = 1)

\* the parameter of that name, if one is bound
lookup(params, name) ==
    IF \E b \in params : b.name = name
    THEN Some((CHOOSE b \in params : b.name = name).value)
    ELSE None

\* the integer a parameter holds, or -1 for none (no entity has that id)
id_param(params, name) ==
    LET p == lookup(params, name)
    IN IF IsSome(p) /\ Unwrap(p).type = "Integer" THEN Unwrap(p).n ELSE 0 - 1

has_label(node, label) == \E i \in 1..Len(node.labels) : node.labels[i] = label

\* n.key = value
has_prop(entity, key, val) ==
    \E i \in 1..Len(entity.props) : entity.props[i].key = key /\ entity.props[i].val = val

\* SET e.key = value
put(props, key, val) ==
    LET other(x) == x.key # key
    IN Append(SelectSeq(props, other), [key |-> key, val |-> val])

\* the assignments of a SET clause applied in turn
RECURSIVE put_all(_, _, _)
put_all(props, sets, params) ==
    IF Len(sets) = 0 THEN props
    ELSE put_all(put(props, sets[1].key, bolt_of(Unwrap(lookup(params, sets[1].name)))),
                 Tail(sets), params)

all_bound(sets, params) == \A i \in 1..Len(sets) : IsSome(lookup(params, sets[i].name))

\* the largest id in use, or 0
RECURSIVE max_id(_)
max_id(entities) ==
    IF Len(entities) = 0 THEN 0
    ELSE LET m == max_id(Tail(entities))
         IN IF entities[1].n > m THEN entities[1].n ELSE m

touches(rel, id) == rel.start = id \/ rel.end = id

node_rows(nodes) == [i \in 1..Len(nodes) |-> Row("n", nodes[i])]

\* what the store does with a statement
Answered(sent, graph) == [errors |-> {}, rows |-> sent, graph |-> graph]

\* the statement is refused with one of these descriptions; the graph stays
Rejected(errors, graph) == [errors |-> errors, rows |-> <<>>, graph |-> graph]

find_nodes(g, s, params) ==
    LET val == lookup(params, P_val)
        hit(x) == /\ has_label(x, s.label)
                  /\ IsSome(s.key) => (IsSome(val) /\ has_prop(x, Unwrap(s.key), bolt_of(Unwrap(val))))
        hits == SelectSeq(g.nodes, hit)
    IN Answered(node_rows(SubSeq(hits, 1, Min(Len(hits), s.limit))), g)

get_node(g, params) ==
    LET hit(x) == x.n = id_param(params, P_id)
    IN Answered(node_rows(SelectSeq(g.nodes, hit)), g)

create_node(g, s, params) ==
    LET node == BNode(max_id(g.nodes) + 1, <<s.label>>, put_all(<<>>, s.sets, params))
    IN Answered(<<Row("n", node)>>, Graph(Append(g.nodes, node), g.rels))

update_node(g, s, params) ==
    LET id == id_param(params, P_id)
        new(x) == IF x.n = id THEN [x EXCEPT !.props = put_all(@, s.sets, params)] ELSE x
        nodes == [i \in 1..Len(g.nodes) |-> new(g.nodes[i])]
        hit(x) == x.n = id
    IN Answered(node_rows(SelectSeq(nodes, hit)), Graph(nodes, g.rels))

\* the descriptions the driver may give of the store's refusal to delete a
\* node that still has relationships
StillHasRelationships ==
    { <<"ConstraintValidationFailed", "Cannot delete node, because it still has relationships">>,
      <<"Cannot delete node, because it still has relationships">> }

delete_node(g, s, params) ==
    LET id == id_param(params, P_id)
        hit(x) == x.n = id
        other(x) == x.n # id
        apart(x) == ~touches(x, id)
        found == Len(SelectSeq(g.nodes, hit))
    IN IF found > 0 /\ ~s.detach /\ \E i \in 1..Len(g.rels) : touches(g.rels[i], id)
       THEN Rejected(StillHasRelationships, g)
       ELSE Answered(<<Row("deleted", BInteger(found))>>,
                     Graph(SelectSeq(g.nodes, other),
                           IF found > 0 THEN SelectSeq(g.rels, apart) ELSE g.rels))

delete_rel(g, params) ==
    LET id == id_param(params, P_id)
        hit(x) == x.n = id
        other(x) == x.n # id
    IN Answered(<<Row("deleted", BInteger(Len(SelectSeq(g.rels, hit))))>>,
                Graph(g.nodes, SelectSeq(g.rels, other)))

create_rel(g, s, params) ==
    LET a == id_param(params, P_from_id)
        b == id_param(params, P_to_id)
        rel == BRelation(max_id(g.rels) + 1, a, b, s.label, put_all(<<>>, s.sets, params))
    IN IF (\E i \in 1..Len(g.nodes) : g.nodes[i].n = a) /\ (\E i \in 1..Len(g.nodes) : g.nodes[i].n = b)
       THEN Answered(<<Row("r", rel)>>, Graph(g.nodes, Append(g.rels, rel)))
       ELSE Answered(<<>>, g)

\* the store's answer to a query on the graph g
answer(g, q) ==
    LET s == parse(q.text)
    IN IF s.op = "error" THEN Rejected({<<"SyntaxError", "Invalid input">>}, g)
       ELSE IF ~all_bound(s.sets, q.params) THEN Rejected({<<"Expected parameter(s)">>}, g)
       ELSE CASE s.op = "find" -> find_nodes(g, s, q.params)
              [] s.op = "get" -> get_node(g, q.params)
              [] s.op = "create" -> create_node(g, s, q.params)
              [] s.op = "update" -> update_node(g, s, q.params)
              [] s.op = "delete" -> delete_node(g, s, q.params)
              [] s.op = "delete rel" -> delete_rel(g, q.params)
              [] s.op = "create rel" -> create_rel(g, s, q.params)

---------------------------------------------------------------------------
(* The run of one command against a store that holds a graph               *)

\* n nodes labelled P with the ids 1..n and a property k; the first two are
\* linked by a relationship
People(n) ==
    Graph([i \in 1..n |->
              BNode(i, <<<<"P">>>>,
                    <<[key |-> <<"k">>,
                       val |-> BString(IF i % 2 = 1 THEN <<"v">> ELSE <<"v", "=", "w">>)]>>)],
          IF n >= 2 THEN <<BRelation(1, 1, 2, <<"T">>, <<>>)>> ELSE <<>>)

\* a label with a backtick, and properties named like the keys node_to_json adds
Odd ==
    Graph(<< BNode(1, <<<<"a", BT, "b">>>>, <<[key |-> K_id, val |-> BInteger(7)]>>),
             BNode(2, <<<<"P">>>>, <<[key |-> K_id, val |-> BString(<<"s">>)]>>),
             BNode(3, <<<<"P">>>>, <<>>),
             BNode(4, <<<<"P">>>>, <<[key |-> K_id, val |-> BInteger(7)]>>) >>,
          <<>>)

Graphs == {People(n) : n \in 0..MaxNodes} \cup {Odd}

StoreCommands ==
    {"node find", "node get", "node create", "node update", "node delete", "rel create",
     "rel delete"}

PasswordByEnv ==
    CHOOSE c \in ConnPassword : IsNone(c.flags.password) /\ IsSome(c.env.NEO4J_PASSWORD)

StoreInputs == {Input(b, PasswordByEnv) : b \in {x \in Bodies : x.cmd \in StoreCommands}}

\* the graph the store holds now, and the one it held when the command began
Now == store[Len(store)]

Before == store[1]

InitStore ==
    /\ \E i \in StoreInputs : req = i.req /\ env = i.env
    /\ \E g \in Graphs : store = <<g>>
    /\ pc = "start"
    /\ calls = <<>>
    /\ config = None
    /\ query = None
    /\ stream = <<>>
    /\ fetched = 0
    /\ rows = <<>>
    /\ step = 0
    /\ parts = <<>>
    /\ msg = <<>>
    /\ err = NoError
    /\ outcome = None

\* graph.execute succeeds: the store has carried out the statement and holds
\* its rows; the handler asks for the first one
StoreAnswers ==
    /\ pc = "executing"
    /\ LET a == answer(Now, Unwrap(query))
       IN /\ a.errors = {}
          /\ stream' = a.rows
          /\ store' = Append(store, a.graph)
    /\ fetched' = 0
    /\ Becomes(Polled(Cur))
    /\ UNCHANGED <<req, env, config, msg>>

\* the store refuses the statement and graph.execute returns the error
StoreRejects ==
    /\ pc = "executing"
    /\ \E d \in answer(Now, Unwrap(query)).errors :
          /\ msg' = d
          /\ Becomes(Failed(Cur, map_neo4j_error(d)))
    /\ UNCHANGED <<store, req, env, config, stream, fetched>>

\* the store refuses the statement and the driver reports it with the first
\* row asked for
StoreRejectsLate ==
    /\ pc = "executing"
    /\ \E d \in answer(Now, Unwrap(query)).errors : msg' = d
    /\ Becomes(Polled(Cur))
    /\ UNCHANGED <<store, req, env, config, stream, fetched>>

\* result.next() returns the refusal
NextRejected ==
    /\ pc = "fetching"
    /\ msg # <<>>
    /\ Becomes(Failed(Cur, map_neo4j_error(msg)))
    /\ UNCHANGED <<store, req, env, config, stream, fetched, msg>>

\* result.next() returns a row of the answer, or its end
RowArrives ==
    /\ msg = <<>>
    /\ NextRow

NextStore ==
    \/ Start
    \/ ConnectFails
    \/ ConnectOk
    \/ StoreAnswers
    \/ StoreRejects
    \/ StoreRejectsLate
    \/ NextRejected
    \/ RowArrives

SpecStore == InitStore /\ [][NextStore]_vars

---------------------------------------------------------------------------
(* Properties                                                              *)

Succeeded == pc = "done" /\ IsSome(outcome) /\ Unwrap(outcome).ok

Errored == pc = "done" /\ IsSome(outcome) /\ ~Unwrap(outcome).ok

Data == Unwrap(outcome).data

ErrorEnvelope == Unwrap(outcome).error

\* C1: a run that ends in InvalidParams has not opened the connection to
\* the store: no store call was issued before the error was decided.
C1_InvalidParamsBeforeConnect ==
    (Errored /\ ErrorEnvelope.code = "INVALID_PARAMS") => calls = <<>>

\* the backtick-quoted identifiers a Cypher parser reads in a query text, in
\* order: a backtick opens an identifier, a doubled backtick inside it is a
\* literal backtick, a single one closes it
RECURSIVE QuotedIdentifiers(_, _, _, _)
QuotedIdentifiers(t, i, inside, cur) ==
    IF i > Len(t) THEN (IF inside THEN <<cur \o <<"<unterminated>">>>> ELSE <<>>)
    ELSE IF ~inside
    THEN QuotedIdentifiers(t, i + 1, t[i] = BT, <<>>)
    ELSE IF t[i] # BT THEN QuotedIdentifiers(t, i + 1, TRUE, Append(cur, t[i]))
    ELSE IF i < Len(t) /\ t[i + 1] = BT THEN QuotedIdentifiers(t, i + 2, TRUE, Append(cur, BT))
    ELSE <<cur>> \o QuotedIdentifiers(t, i + 1, FALSE, <<>>)

RECURSIVE Twice(_)
Twice(ks) == IF Len(ks) = 0 THEN <<>> ELSE <<ks[1], ks[1]>> \o Twice(Tail(ks))

\* the identifiers the caller supplied, in the order the query names them
SuppliedIdentifiers(r) ==
    CASE r.cmd = "node find" ->
            <<Unwrap(flag(r, "label"))>>
                \o (IF IsSome(flag(r, "where"))
                    THEN <<Unwrap(split_once(Unwrap(flag(r, "where"))))[1]>> ELSE <<>>)
      [] r.cmd = "node create" ->
            <<Unwrap(flag(r, "label"))>> \o Twice(keys(props_of(r, "props")))
      [] r.cmd = "node update" -> Twice(keys(props_of(r, "set")))
      [] r.cmd = "rel find" ->
            IF IsSome(flag(r, "type")) THEN <<Unwrap(flag(r, "type"))>> ELSE <<>>
      [] r.cmd = "rel create" ->
            <<Unwrap(flag(r, "type"))>>
                \o (IF IsSome(flag(r, "props")) THEN Twice(keys(props_of(r, "props"))) ELSE <<>>)

IdentifierCommands == {"node find", "node create", "node update", "rel find", "rel create"}

HasBacktick(ident) == \E i \in 1..Len(ident) : ident[i] = BT

\* C2: in the query text of node find/create/update and rel find/create,
\* every supplied label, relationship type and property key is read back as
\* one quoted identifier: the quoted identifiers of the text are exactly the
\* supplied ones.
C2_IdentifiersQuotedAsLiterals ==
    (IsSome(query) /\ req.cmd \in IdentifierCommands)
        => QuotedIdentifiers(Unwrap(query).text, 1, FALSE, <<>>) = SuppliedIdentifiers(req)

\* the same property for identifiers without a backtick, which the code
\* does satisfy
C2_PlainIdentifiersQuoted ==
    (IsSome(query) /\ req.cmd \in IdentifierCommands
        /\ \A i \in 1..Len(SuppliedIdentifiers(req)) : ~HasBacktick(SuppliedIdentifiers(req)[i]))
        => QuotedIdentifiers(Unwrap(query).text, 1, FALSE, <<>>) = SuppliedIdentifiers(req)

\* the request reaches its first query
Compiles(r, e) ==
    IsNone(before_connect(r)) /\ connection_config(r, e).ok /\ IsNone(after_connect(r))

\* two requests that differ at most in caller-supplied scalar values: the
\* --where value, the ids (positional, --from, --to) and the property values
SameButValues(r1, r2) ==
    /\ r1.cmd = r2.cmd
    /\ r1.cmd \in {"node find", "node get", "node create", "node update", "node delete",
                   "rel find", "rel create", "rel delete"}
    /\ IsSome(arg(r1)) = IsSome(arg(r2))
    /\ \A f \in FlagNames : IsSome(flag(r1, f)) = IsSome(flag(r2, f))
    /\ \A f \in FlagNames \ {"where", "from", "to", "props", "set", "params"} :
            flag(r1, f) = flag(r2, f)
    /\ IsSome(flag(r1, "where")) =>
            /\ IsSome(split_once(Unwrap(flag(r1, "where"))))
                    = IsSome(split_once(Unwrap(flag(r2, "where"))))
            /\ IsSome(split_once(Unwrap(flag(r1, "where")))) =>
                    Unwrap(split_once(Unwrap(flag(r1, "where"))))[1]
                        = Unwrap(split_once(Unwrap(flag(r2, "where"))))[1]
    /\ \A f \in {"props", "set"} :
            IsSome(flag(r1, f)) =>
                /\ IsSome(from_str(Unwrap(flag(r1, f)))) = IsSome(from_str(Unwrap(flag(r2, f))))
                /\ IsSome(from_str(Unwrap(flag(r1, f)))) =>
                        keys(props_of(r1, f)) = keys(props_of(r2, f))

\* C3: the query text does not depend on the caller-supplied scalar values:
\* every request that differs from the running one only in these values
\* compiles to the same query text.
C3_ValuesNeverInQueryText ==
    (pc = "executing" /\ step = 1) =>
        \A i \in Inputs :
            (i.env = env /\ SameButValues(req, i.req) /\ Compiles(i.req, i.env))
                => compile(i.req, 1).text = Unwrap(query).text

WellFormedId(o) == IsNone(o) \/ IsSome(parse_i64(Unwrap(o)))

\* the same property for requests whose --from and --to are well-formed
\* ids, which the code does satisfy
C3_WellFormedValuesNeverInQueryText ==
    (pc = "executing" /\ step = 1) =>
        \A i \in Inputs :
            (/\ i.env = env /\ SameButValues(req, i.req) /\ Compiles(i.req, i.env)
             /\ \A f \in {"from", "to"} : WellFormedId(flag(req, f)) /\ WellFormedId(flag(i.req, f)))
                => compile(i.req, 1).text = Unwrap(query).text

HigherMarkers == AuthMarkers \cup SyntaxMarkers \cup ConstraintMarkers

\* C4 as stated: every description that contains "refused" is classified
\* ConnectionFailed with retryable = true.
C4_RefusedIsConnectionFailed ==
    (Errored /\ contains(msg, "refused"))
        => (err.kind = "ConnectionFailed" /\ ErrorEnvelope.retryable)

\* C4 amended: a description that contains "refused" and no authentication,
\* syntax or constraint marker is classified ConnectionFailed with
\* retryable = true; every error of another kind has retryable = false.
C4_RefusedWithoutHigherMarker ==
    Errored =>
        /\ (contains(msg, "refused") /\ ~containsAny(msg, HigherMarkers))
                => (err.kind = "ConnectionFailed" /\ ErrorEnvelope.code = "CONNECTION_FAILED"
                    /\ ErrorEnvelope.retryable)
        /\ err.kind # "ConnectionFailed" => ~ErrorEnvelope.retryable

C4_Witness ==
    /\ Errored
    /\ msg = <<" timed out ", "refused">>
    /\ ErrorEnvelope.code = "CONNECTION_FAILED"
    /\ ErrorEnvelope.retryable

\* C5: the classifier tests authentication, then syntax, then constraint,
\* then connection markers and the first match decides; no marker gives
\* QueryFailed; the reason is the description; the four kinds raised by the
\* handlers themselves are never produced.
C5_PriorityOrder ==
    pc = "classified" =>
        /\ err.kind \in {"AuthenticationFailed", "CypherSyntaxError", "ConstraintViolation",
                         "ConnectionFailed", "QueryFailed"}
        /\ err.payload = msg
        /\ err.kind = "AuthenticationFailed" <=> containsAny(msg, AuthMarkers)
        /\ err.kind = "CypherSyntaxError" <=>
                (~containsAny(msg, AuthMarkers) /\ containsAny(msg, SyntaxMarkers))
        /\ err.kind = "ConstraintViolation" <=>
                (~containsAny(msg, AuthMarkers \cup SyntaxMarkers)
                 /\ containsAny(msg, ConstraintMarkers))
        /\ err.kind = "ConnectionFailed" <=>
                (~containsAny(msg, HigherMarkers) /\ containsAny(msg, ConnectionMarkers))
        /\ err.kind = "QueryFailed" <=> ~containsAny(msg, Markers)

C5_Witness ==
    /\ pc = "classified"
    /\ msg = <<"Connection", "already exists">>
    /\ err.kind = "ConstraintViolation"

\* C6: the error envelope of an error is retryable exactly when the error is
\* a ConnectionFailed, whatever its payload.
C6_OnlyConnectionFailedRetryable ==
    Errored => (ErrorEnvelope.retryable <=> err.kind = "ConnectionFailed")

C6_Witness ==
    /\ Errored
    /\ msg = <<>>
    /\ err = AppError("QueryFailed", <<"refused">>)
    /\ ~ErrorEnvelope.retryable

NoPassword == IsNone(flag(req, "password")) /\ IsNone(env_var(env, "NEO4J_PASSWORD"))

\* C7: when neither --password nor NEO4J_PASSWORD is given, a handler that
\* calls from_request ends with ConnectionNotConfigured, not retryable, and
\* no store call is issued.
C7_NoPasswordNoConnect ==
    (pc # "start" /\ NoPassword /\ IsNone(before_connect(req))) =>
        /\ Errored
        /\ ErrorEnvelope.code = "CONNECTION_NOT_CONFIGURED"
        /\ ~ErrorEnvelope.retryable
        /\ calls = <<>>
        /\ IsNone(config)

C7_Witness ==
    /\ Errored
    /\ NoPassword
    /\ req.cmd = "ping"
    /\ IsSome(flag(req, "uri")) /\ IsSome(env_var(env, "NEO4J_USER"))
    /\ ErrorEnvelope.code = "CONNECTION_NOT_CONFIGURED"
    /\ calls = <<>>

\* flag if present, else environment variable if present, else the default
Precedence(f, k, default) ==
    IF IsSome(flag(req, f)) THEN Unwrap(flag(req, f))
    ELSE IF IsSome(env_var(env, k)) THEN Unwrap(env_var(env, k))
    ELSE default

\* C8: the connection is opened with, for each of uri, user, password and
\* database, the flag when present, else the environment variable when
\* present, else the default; ping reports the same uri and database.
C8_FlagThenEnvThenDefault ==
    IsSome(config) =>
        /\ Unwrap(config).uri = Precedence("uri", "NEO4J_URI", <<"bolt://localhost:7687">>)
        /\ Unwrap(config).user = Precedence("user", "NEO4J_USER", <<"neo4j">>)
        /\ Unwrap(config).db = Precedence("db", "NEO4J_DB", <<"neo4j">>)
        /\ ~NoPassword
        /\ Unwrap(config).password = Precedence("password", "NEO4J_PASSWORD", <<>>)
        /\ (Succeeded /\ req.cmd = "ping") =>
                /\ Data.uri = Precedence("uri", "NEO4J_URI", <<"bolt://localhost:7687">>)
                /\ Data.db = Precedence("db", "NEO4J_DB", <<"neo4j">>)

C8_Witness ==
    /\ IsSome(config)
    /\ IsSome(flag(req, "uri")) /\ IsSome(env_var(env, "NEO4J_URI"))
    /\ Unwrap(config).uri = <<"bolt://flag:7687">>
    /\ IsNone(flag(req, "user")) /\ Unwrap(config).user = <<"env-user">>
    /\ IsNone(flag(req, "db")) /\ IsNone(env_var(env, "NEO4J_DB"))
    /\ Unwrap(config).db = <<"neo4j">>
    /\ Unwrap(config).password = <<"env-pw">>

ReadQueryDone == Succeeded /\ req.cmd = "query" /\ IsNone(flag(req, "write"))

\* the --limit of the request as a number: its value when it is a number,
\* else 100
LimitGiven ==
    IF flag(req, "limit") = Some(<<"0">>) THEN 0
    ELSE IF flag(req, "limit") = Some(<<"1">>) THEN 1
    ELSE IF flag(req, "limit") = Some(<<"2">>) THEN 2
    ELSE 100

\* C9: a read-mode raw query with limit L on a stream of N rows returns the
\* first min(N, L) rows, count = min(N, L), and truncated = true exactly
\* when the count has reached L; never more than L rows.
C9_ReadModeLimit ==
    ReadQueryDone =>
        /\ Len(Data.rows) = Min(Len(stream), LimitGiven)
        /\ \A i \in 1..Len(Data.rows) : Data.rows[i] = row_to_json(stream[i])
        /\ Data.count = Min(Len(stream), LimitGiven)
        /\ Data.truncated <=> (Data.count = LimitGiven)
        /\ Len(Data.rows) <= LimitGiven
        /\ Data.limit = LimitGiven

C9_Witness ==
    /\ ReadQueryDone
    /\ flag(req, "limit") = Some(<<"1">>)
    /\ Len(stream) = 3
    /\ Len(Data.rows) = 1
    /\ Data.truncated

WriteQueryDone == Succeeded /\ req.cmd = "query" /\ IsSome(flag(req, "write"))

\* C10: a write-mode raw query reads no row; its success envelope holds
\* executed, cypher and mode only, the same for every --limit.
C10_WriteModeIgnoresLimit ==
    /\ WriteQueryDone =>
        /\ Data = [executed |-> TRUE, cypher |-> Unwrap(arg(req)), mode |-> "write"]
        /\ DOMAIN Data \cap {"truncated", "rows", "count"} = {}
        /\ rows = <<>>
        /\ calls = <<"connect", "run">>
    /\ (req.cmd = "query" /\ IsSome(flag(req, "write"))) =>
            \A i \in 1..Len(calls) : calls[i] \in {"connect", "run"}

C10_Witness ==
    /\ WriteQueryDone
    /\ flag(req, "limit") = Some(<<"0">>)
    /\ calls = <<"connect", "run">>

---------------------------------------------------------------------------
(* Deleting: the affected-count column                                     *)

Deletes == {"node delete", "rel delete"}

\* the store has answered the delete query and the handler has read its row
DeleteAnswered ==
    /\ pc = "done"
    /\ req.cmd \in Deletes
    /\ calls = <<"connect", "execute", "next">>
    /\ msg = <<>>

\* the answer holds a row whose column "deleted" is an integer above 0
PositiveCount ==
    /\ Len(stream) > 0
    /\ stream[1].col = "deleted"
    /\ stream[1].val.bt = "Integer"
    /\ stream[1].val.n > 0

NotFoundCode == IF req.cmd = "node delete" THEN "NODE_NOT_FOUND" ELSE "REL_NOT_FOUND"

NotFoundText ==
    IF req.cmd \in {"rel delete"} THEN <<"Relationship not found: ">> ELSE <<"Node not found: ">>

\* C11: node delete and rel delete succeed (deleted = true) only when the
\* affected-count column is above 0; a count of 0, an absent row or an
\* unreadable column gives NodeNotFound or RelNotFound with the id as typed;
\* a not-found outcome never comes from a driver error.
C11_DeleteNeedsPositiveCount ==
    (pc = "done" /\ req.cmd \in Deletes) =>
        /\ Succeeded <=> (DeleteAnswered /\ PositiveCount)
        /\ Succeeded => (Data.deleted = TRUE /\ Data.id = id_of(req))
        /\ (DeleteAnswered /\ ~PositiveCount) =>
                /\ Errored
                /\ ErrorEnvelope.code = NotFoundCode
                /\ ErrorEnvelope.message = NotFoundText \o Unwrap(arg(req))
        /\ (Errored /\ ErrorEnvelope.code \in {"NODE_NOT_FOUND", "REL_NOT_FOUND"}) =>
                (DeleteAnswered /\ ~PositiveCount)

C11_Witness ==
    /\ DeleteAnswered
    /\ req.cmd = "rel delete"
    /\ arg(req) = Some(<<"0", "2">>)
    /\ stream = <<Row("deleted", BNull)>>
    /\ Errored
    /\ ErrorEnvelope.message = <<"Relationship not found: ", "0", "2">>

---------------------------------------------------------------------------
(* Reading one node: node get and node update                              *)

\* the store has answered the query of a node get or node update
OneNodeAnswered ==
    /\ pc = "done"
    /\ req.cmd \in {"node get", "node update"}
    /\ calls = <<"connect", "execute", "next">>
    /\ msg = <<>>

\* C13: node get and node update with a well-formed id for which the store
\* returns no row fail with NodeNotFound, and the message holds the id
\* argument exactly as typed; a success envelope always carries the node of
\* the row the store returned.
C13_ZeroRowsIsNodeNotFound ==
    /\ (OneNodeAnswered /\ stream = <<>>) =>
            /\ Errored
            /\ ErrorEnvelope.code = "NODE_NOT_FOUND"
            /\ ErrorEnvelope.message = <<"Node not found: ">> \o Unwrap(arg(req))
            /\ IsSome(parse_i64(Unwrap(arg(req))))
    /\ (Succeeded /\ req.cmd \in {"node get", "node update"}) =>
            /\ OneNodeAnswered
            /\ Len(stream) > 0
            /\ stream[1].val.bt = "Node"
            /\ Data.node = node_to_json(stream[1].val)

C13_Witness ==
    /\ OneNodeAnswered
    /\ req.cmd = "node update"
    /\ arg(req) = Some(<<"0", "2">>)
    /\ stream = <<>>
    /\ ErrorEnvelope.message = <<"Node not found: ", "0", "2">>

---------------------------------------------------------------------------
(* node find --where                                                       *)

\* positions of '=' in the filter
EqualsAt(w) == {i \in 1..Len(w) : w[i] = "="}

FirstOf(S) == CHOOSE i \in S : \A j \in S : i <= j

FilteredFind ==
    /\ req.cmd = "node find"
    /\ IsSome(flag(req, "label"))
    /\ IsSome(flag(req, "where"))

\* node find and its filter: with an '=', the key is what stands before the
\* first one and the value what stands after it; without one, no query is
\* sent and the runs described by invalid end in InvalidParams
SplitsAtFirstEquals(invalid) ==
    FilteredFind =>
        LET w == Unwrap(flag(req, "where"))
            i == FirstOf(EqualsAt(w))
        IN IF EqualsAt(w) = {}
           THEN /\ IsNone(query)
                /\ \A c \in 1..Len(calls) : calls[c] = "connect"
                /\ invalid =>
                        /\ ErrorEnvelope.code = "INVALID_PARAMS"
                        /\ ErrorEnvelope.message =
                              <<"Invalid parameters: ", "Invalid --where format. Use prop=value">>
           ELSE /\ (pc = "done" /\ Errored) => ErrorEnvelope.code # "INVALID_PARAMS"
                /\ IsSome(query) =>
                     /\ Unwrap(query).text =
                           <<"MATCH (n:">> \o Quoted(Unwrap(flag(req, "label"))) \o <<") WHERE n.">>
                              \o Quoted(SubSeq(w, 1, i - 1))
                              \o <<" = $val RETURN n LIMIT ">> \o Display(limit_of(req))
                     /\ Unwrap(query).params =
                           {[name |-> P_val, value |-> PString(SubSeq(w, i + 1, Len(w)))]}

\* C14: node find splits --where at its first '=': the key is what stands
\* before it, the value what stands after it, later '=' included; a filter
\* without '=' gives InvalidParams and no query is sent to the store.
C14_WhereSplitsAtFirstEquals == SplitsAtFirstEquals(pc = "done")

\* the same, for the runs whose connection was opened: the filter is looked
\* at after from_request only
C14_SplitsAtFirstEqualsOnceConnected ==
    SplitsAtFirstEquals(pc = "done" /\ calls = <<"connect">> /\ msg = <<>>)

\* a filter without '=' on an open connection
C14_NoEqualsIsInvalidParams ==
    /\ FilteredFind
    /\ flag(req, "where") = Some(<<"k">>)
    /\ pc = "done"
    /\ calls = <<"connect">>
    /\ ErrorEnvelope.code = "INVALID_PARAMS"

C14_Witness ==
    /\ FilteredFind
    /\ flag(req, "where") = Some(<<"k", "=", "v", "=", "w">>)
    /\ Succeeded
    /\ Unwrap(query).params = {[name |-> P_val, value |-> PString(<<"v", "=", "w">>)]}

---------------------------------------------------------------------------
(* node delete and the relationships of the node                           *)

WellFormedArg == IsSome(arg(req)) /\ IsSome(parse_i64(Unwrap(arg(req))))

HoldsNode(g, id) == \E i \in 1..Len(g.nodes) : g.nodes[i].n = id

\* the node is in the graph and a relationship starts or ends at it
Linked(g, id) == HoldsNode(g, id) /\ \E i \in 1..Len(g.rels) : touches(g.rels[i], id)

\* the store has been asked and the command has ended
AskedAndDone == pc = "done" /\ \E i \in 1..Len(calls) : calls[i] = "execute"

\* C12: node delete without --detach on a node that still has relationships
\* never succeeds: the refusal of the store ends the command with
\* ConstraintViolation or QueryFailed and the graph stays as it was; with
\* --detach the command succeeds and the node and its relationships are gone.
C12_DetachDecidesDelete ==
    (req.cmd = "node delete" /\ WellFormedArg /\ Linked(Before, id_of(req))) =>
        IF IsNone(flag(req, "detach"))
        THEN /\ \A i \in 1..Len(store) : store[i] = Before
             /\ ~Succeeded
             /\ AskedAndDone =>
                    (Errored /\ ErrorEnvelope.code \in {"CONSTRAINT_VIOLATION", "QUERY_FAILED"})
        ELSE AskedAndDone =>
                /\ Succeeded
                /\ Data.deleted = TRUE
                /\ ~HoldsNode(Now, id_of(req))
                /\ \A i \in 1..Len(Now.rels) : ~touches(Now.rels[i], id_of(req))
                /\ Len(Now.nodes) = Len(Before.nodes) - 1

C12_Witness ==
    /\ req.cmd = "node delete"
    /\ arg(req) = Some(<<"0", "2">>)
    /\ IsNone(flag(req, "detach"))
    /\ Before = People(2)
    /\ AskedAndDone
    /\ ErrorEnvelope.code = "CONSTRAINT_VIOLATION"
    /\ Now = People(2)

---------------------------------------------------------------------------
(* node find against the graph of the store                                *)

\* the nodes of the graph that carry the label, in the order of their ids
Labelled(g, label) ==
    LET hit(x) == has_label(x, label)
    IN SelectSeq(g.nodes, hit)

\* node find by label alone, with no --limit or a numeric one, answered
FoundByLabel ==
    /\ AskedAndDone
    /\ req.cmd = "node find"
    /\ IsNone(flag(req, "where"))
    /\ flag(req, "limit") \in {None, Some(<<"2">>)}

FindReturnsMin ==
    LET held == Labelled(Before, Unwrap(flag(req, "label")))
        k == Min(Len(held), LimitGiven)
    IN /\ Succeeded
       /\ Len(Data.nodes) = k
       /\ \A i \in 1..k : Data.nodes[i] = node_to_json(held[i])
       /\ Data.count = Len(Data.nodes)

\* C15: node find with label X and limit L against a store that holds N nodes
\* labelled X returns the first min(N, L) of them and count is the length of
\* the returned list; without --limit, L is 100.
C15_FindReturnsMinOfHeldAndLimit ==
    /\ FoundByLabel => FindReturnsMin
    /\ (Succeeded /\ req.cmd = "node find") => Data.count = Len(Data.nodes)

\* the same for the labels that hold no backtick
C15_PlainLabelFindReturnsMin ==
    /\ (FoundByLabel /\ ~HasBacktick(Unwrap(flag(req, "label")))) => FindReturnsMin
    /\ (Succeeded /\ req.cmd = "node find") => Data.count = Len(Data.nodes)

C15_FiveHeldTwoAsked ==
    /\ FoundByLabel
    /\ Before = People(5)
    /\ flag(req, "label") = Some(<<"P">>)
    /\ flag(req, "limit") = Some(<<"2">>)
    /\ Len(Data.nodes) = 2
    /\ Data.count = 2

---------------------------------------------------------------------------
(* The suggestions of node find                                            *)

Actions == Unwrap(outcome).next_actions

FindSucceeded == Succeeded /\ req.cmd = "node find"

\* the first min(N, 5) suggestions are node get <id> for the first nodes the
\* store returned, in their order, and the generic node create follows
FindSuggestsFirstFive ==
    LET k == Min(Len(Data.nodes), 5)
    IN /\ Len(Data.nodes) = Len(stream)
       /\ Len(Actions) = k + 1
       /\ \A i \in 1..k :
             Actions[i].command = <<"lowmain node get ">> \o Display(stream[i].val.n)
       /\ Actions[k + 1].command =
             <<"lowmain node create --label=">> \o Unwrap(flag(req, "label"))
       /\ Len(Actions) <= 6

\* C16: a node find that returns N nodes suggests node get <id> for each of
\* the first min(N, 5) returned nodes, in result order, then the generic
\* node create; never more than 6 suggestions.
C16_FindSuggestsFirstFiveNodes == FindSucceeded => FindSuggestsFirstFive

\* the same when no returned node has a property named _id
C16_FindSuggestsFirstFiveUnlessIdProperty ==
    (FindSucceeded /\ \A i \in 1..Len(stream) : \A j \in 1..Len(stream[i].val.props) :
                            stream[i].val.props[j].key # K_id)
        => FindSuggestsFirstFive

C16_SixFound ==
    /\ FindSucceeded
    /\ Len(Data.nodes) = 6
    /\ Len(Actions) = 6
    /\ Actions[5].command = <<"lowmain node get ", "5">>

---------------------------------------------------------------------------
(* The size of the suggestion lists                                        *)

\* the text a suggestion made from one element of the result starts with
DerivedPrefix ==
    CASE req.cmd = "node find" -> "lowmain node get "
      [] req.cmd \in {"schema", "schema labels"} -> "lowmain node find --label="
      [] req.cmd = "schema types" -> "lowmain rel find --type="
      [] OTHER -> "-"

\* the suggestions made from the elements of the result
Derived == {i \in 1..Len(Actions) : Actions[i].command[1] = DerivedPrefix}

\* C17: in every command the suggestions made from a result set of variable
\* length (nodes, labels, relationship types; schema, schema labels and
\* schema types included) number at most 5, whatever the store returns.
C17_DerivedSuggestionsCapped == Succeeded => Cardinality(Derived) <= 5

\* node find alone keeps to the cap
C17_FoundNodesCapped == FindSucceeded => Cardinality(Derived) <= 5

C17_SixLabelsSixSuggestions ==
    /\ Succeeded
    /\ req.cmd = "schema labels"
    /\ Len(Data.labels) = 6
    /\ Cardinality(Derived) = 6

---------------------------------------------------------------------------
(* The ids named by the suggestions                                        *)

NodeIdPrefixes ==
    {"lowmain node get ", "lowmain node update ", "lowmain node delete ",
     "lowmain rel find --from=", "lowmain rel find --to=", "lowmain rel create --from="}

RelIdPrefixes == {"lowmain rel delete "}

\* the id texts that follow one of the prefixes in a suggested command
SuggestedIds(prefixes) ==
    {Tail(Actions[i].command) : i \in {j \in 1..Len(Actions) : Actions[j].command[1] \in prefixes}}

\* the id text a JSON object shows under a key, if it shows an integer there
ShownUnder(m, k) ==
    LET v == map_get(m, k)
    IN IF IsSome(v) /\ IsSome(as_i64(Unwrap(v))) THEN {Display(Unwrap(as_i64(Unwrap(v))))} ELSE {}

IdCommands == {"node find", "node get", "node create", "node update", "rel create"}

\* ids of the nodes the store returned, and the ids the payload shows
ReturnedNodeIds ==
    IF req.cmd = "rel create"
    THEN {Display(stream[1].val.start), Display(stream[1].val.end)}
    ELSE {Display(stream[i].val.n) : i \in 1..Len(stream)}

ShownNodeIds ==
    CASE req.cmd = "rel create" ->
            ShownUnder(Data.relationship, K_start_node_id)
                \cup ShownUnder(Data.relationship, K_end_node_id)
      [] req.cmd = "node find" ->
            UNION {ShownUnder(Data.nodes[i], K_id) : i \in 1..Len(Data.nodes)}
      [] OTHER -> ShownUnder(Data.node, K_id)

ReturnedRelIds == IF req.cmd = "rel create" THEN {Display(stream[1].val.n)} ELSE {}

ShownRelIds == IF req.cmd = "rel create" THEN ShownUnder(Data.relationship, K_id) ELSE {}

SuggestsReturnedIds ==
    /\ SuggestedIds(NodeIdPrefixes) \subseteq (ReturnedNodeIds \cap ShownNodeIds)
    /\ SuggestedIds(RelIdPrefixes) \subseteq (ReturnedRelIds \cap ShownRelIds)

IdsSuggested == Succeeded /\ req.cmd \in IdCommands

\* C18: every node or relationship id in a suggestion of a successful node
\* find, get, create, update or rel create is the id of an entity the store
\* returned for this response, and the payload shows it as that entity's
\* _id (or _start_node_id, _end_node_id).
C18_SuggestionsNameReturnedEntities == IdsSuggested => SuggestsReturnedIds

\* the same when no returned entity has a property named _id, id, from_id
\* or to_id
C18_SuggestionsNameReturnedUnlessIdProperty ==
    (IdsSuggested /\ \A i \in 1..Len(stream) : \A j \in 1..Len(stream[i].val.props) :
                        stream[i].val.props[j].key \notin {K_id, P_id, P_from_id, P_to_id})
        => SuggestsReturnedIds

C18_RelationshipCreated ==
    /\ Succeeded
    /\ req.cmd = "rel create"
    /\ SuggestedIds(NodeIdPrefixes) = {<<"1">>, <<"2">>}
    /\ SuggestedIds(RelIdPrefixes) = {<<"2">>}
    /\ ShownRelIds = {<<"2">>}

---------------------------------------------------------------------------
(* The commands the suggestions name                                       *)

\* the command a suggested command line runs and the inputs its text gives,
\* by the fixed text the line starts with
Line(cmd, given) == [cmd |-> cmd, given |-> given]

Template(prefix) ==
    CASE prefix = "lowmain node get " -> Line("node get", {"arg"})
      [] prefix = "lowmain node update " -> Line("node update", {"arg"})
      [] prefix = "lowmain node delete " -> Line("node delete", {"arg"})
      [] prefix = "lowmain rel delete " -> Line("rel delete", {"arg"})
      [] prefix = "lowmain node find --label=" -> Line("node find", {"label"})
      [] prefix = "lowmain node create --label=" -> Line("node create", {"label"})
      [] prefix = "lowmain rel find --from=" -> Line("rel find", {"from"})
      [] prefix = "lowmain rel find --to=" -> Line("rel find", {"to"})
      [] prefix = "lowmain rel find --type=" -> Line("rel find", {"type"})
      [] prefix = "lowmain rel create --from=" -> Line("rel create", {"from"})
      [] prefix = "lowmain node find" -> Line("node find", {})
      [] prefix = "lowmain node create" -> Line("node create", {})
      [] prefix = "lowmain rel find" -> Line("rel find", {})
      [] prefix = "lowmain rel create" -> Line("rel create", {})
      [] prefix = "lowmain query" -> Line("query", {})
      [] prefix = "lowmain schema" -> Line("schema", {})
      [] prefix = "lowmain schema labels" -> Line("schema labels", {})
      [] prefix = "lowmain schema types" -> Line("schema types", {})
      [] prefix = "lowmain schema indexes" -> Line("schema indexes", {})
      [] prefix = "lowmain schema constraints" -> Line("schema constraints", {})
      [] OTHER -> Line("-", {})

\* the input a parameter descriptor stands for
InputOf(name) ==
    CASE name = "cypher" -> "arg"
      [] name = "--label" -> "label"
      [] name = "--props" -> "props"
      [] name = "--set" -> "set"
      [] name = "--from" -> "from"
      [] name = "--to" -> "to"
      [] name = "--type" -> "type"
      [] OTHER -> "-"

\* a request of the command with every input given and well formed
FullRequest(cmd) ==
    Request(cmd, Some(<<"1">>),
            [f \in FlagNames |->
                CASE f \in {"props", "set", "params"} -> Some(J_empty)
                  [] f \in {"from", "to", "limit"} -> Some(<<"1">>)
                  [] f = "where" -> Some(<<"k", "=", "v">>)
                  [] OTHER -> Some(<<"P">>)])

Lacking(r, input) ==
    IF input = "arg" THEN Request(r.cmd, None, r.flags)
    ELSE Request(r.cmd, r.arg0, [f \in FlagNames |-> IF f = input THEN None ELSE r.flags[f]])

\* the inputs the handler of the command refuses to run without
Mandatory(cmd) ==
    {i \in {"arg"} \cup FlagNames :
        IsNone(before_connect(FullRequest(cmd))) /\ IsSome(before_connect(Lacking(FullRequest(cmd), i)))}

DeclaredRequired(action) ==
    {InputOf(action.params[i].name) : i \in {j \in 1..Len(action.params) : action.params[j].required}}

Runnable(action) ==
    LET line == Template(action.command[1])
    IN /\ line.cmd \in Commands
       /\ Mandatory(line.cmd) \subseteq (line.given \cup DeclaredRequired(action))

\* C19: every suggestion of a successful command names a command of the
\* program, and every input that command refuses to run without is given in
\* the suggested command line or declared as a required parameter.
C19_SuggestionsDeclareMandatoryInputs ==
    Succeeded => \A i \in 1..Len(Actions) : Runnable(Actions[i])

C19_Witness ==
    /\ Succeeded
    /\ req.cmd = "node get"
    /\ Len(Actions) = 5
    /\ Template(Actions[5].command[1]).cmd = "rel create"
    /\ Mandatory("rel create") = {"from", "to", "type"}
    /\ DeclaredRequired(Actions[5]) = {"to", "type"}
    /\ Mandatory("node update") = {"arg", "set"}
    /\ Runnable(Actions[1])

---------------------------------------------------------------------------
(* Properties given to node create and read back                           *)

\* the JSON object given as --props
GivenProps == Unwrap(from_str(Unwrap(flag(req, "props"))))

CreateAnswered == AskedAndDone /\ req.cmd = "node create"

\* the created node is returned and shows every string, number and boolean
\* key of --props with a value of the same JSON type
PropsReadBack ==
    /\ Succeeded
    /\ \A i \in 1..Len(GivenProps) :
          GivenProps[i].value.tag \in {"String", "Number", "Bool"} =>
              LET v == map_get(Data.node, GivenProps[i].key)
              IN IsSome(v) /\ Unwrap(v).tag = GivenProps[i].value.tag

\* C20: for every JSON object P, node create with --props P followed by
\* node_to_json of the created node gives an object that holds every key of
\* P with a value of the same JSON type, for strings, numbers and booleans.
C20_CreatedNodeShowsGivenProps == CreateAnswered => PropsReadBack

\* the same for a label and keys that hold no backtick, and for every
\* create that succeeded
C20_PlainNamesReadBack ==
    /\ (CreateAnswered /\ ~HasBacktick(Unwrap(flag(req, "label")))
            /\ \A i \in 1..Len(GivenProps) : ~HasBacktick(GivenProps[i].key))
          => PropsReadBack
    /\ (Succeeded /\ req.cmd = "node create") => PropsReadBack

C20_FlagAndNumberReadBack ==
    /\ CreateAnswered
    /\ flag(req, "props") = Some(J_flag)
    /\ PropsReadBack
    /\ map_get(Data.node, <<"c">>) = Some(JBool(TRUE))
    /\ map_get(Data.node, <<"a">>) = Some(JInt(2))

---------------------------------------------------------------------------
(* The envelope of each error kind                                         *)

\* the code strings the tests of error.rs expect
ExpectedCode ==
    [ ConnectionFailed |-> "CONNECTION_FAILED", AuthenticationFailed |-> "AUTH_FAILED",
      CypherSyntaxError |-> "CYPHER_SYNTAX_ERROR", ConstraintViolation |-> "CONSTRAINT_VIOLATION",
      QueryFailed |-> "QUERY_FAILED", NodeNotFound |-> "NODE_NOT_FOUND",
      RelNotFound |-> "REL_NOT_FOUND", ConnectionNotConfigured |-> "CONNECTION_NOT_CONFIGURED",
      InvalidParams |-> "INVALID_PARAMS" ]

\* p occurs in s as a run of consecutive pieces
HasInfix(s, p) == \E i \in 0..(Len(s) - Len(p)) : SubSeq(s, i + 1, i + Len(p)) = p

\* C21: the envelope made from an error of any of the nine kinds has the
\* fixed code of the kind, the nine codes being pairwise distinct, the
\* retryable flag of the kind, the non-empty remediation text of the kind as
\* fix, and a message that contains the reason, detail or id of the error.
C21_EnvelopeKeepsFields ==
    /\ \A k1, k2 \in Kinds : k1 # k2 => code(AppError(k1, <<>>)) # code(AppError(k2, <<>>))
    /\ Errored =>
          /\ err.kind \in Kinds
          /\ ErrorEnvelope.code = ExpectedCode[err.kind]
          /\ ErrorEnvelope.retryable = retryable(err)
          /\ ErrorEnvelope.fix = fix(err)
          /\ Len(ErrorEnvelope.fix) > 0
          /\ Len(ErrorEnvelope.message) > 0
          /\ err.kind # "ConnectionNotConfigured" => HasInfix(ErrorEnvelope.message, err.payload)

C21_Witness ==
    /\ Errored
    /\ err = AppError("NodeNotFound", <<"4", "2">>)
    /\ ErrorEnvelope.code = "NODE_NOT_FOUND"
    /\ ErrorEnvelope.message = <<"Node not found: ", "4", "2">>
    /\ ~ErrorEnvelope.retryable

---------------------------------------------------------------------------
(* rel create when no relationship comes back                              *)

\* the store has run the CREATE of a rel create and returned no row
CreateReturnedNothing ==
    /\ pc = "done"
    /\ req.cmd = "rel create"
    /\ calls = <<"connect", "execute", "next">>
    /\ msg = <<>>
    /\ stream = <<>>

\* C22: a rel create whose CREATE runs but returns no row ends with
\* QueryFailed, never with success or a not-found kind; its message tells
\* to check that both nodes exist; the CREATE is the only query sent.
C22_NoRowIsQueryFailed ==
    /\ CreateReturnedNothing =>
          /\ Errored
          /\ err.kind = "QueryFailed"
          /\ ErrorEnvelope.code = "QUERY_FAILED"
          /\ HasInfix(ErrorEnvelope.message, <<" check that both nodes exist">>)
          /\ query = Some(rel_create_query(req))
    /\ (req.cmd = "rel create" /\ Errored) =>
          ErrorEnvelope.code \notin {"NODE_NOT_FOUND", "REL_NOT_FOUND"}
    /\ (req.cmd = "rel create" /\ pc # "start") =>
          Len(SelectSeq(calls, LAMBDA c : c \in {"execute", "run"})) <= 1

C22_Witness ==
    /\ CreateReturnedNothing
    /\ flag(req, "from") = Some(<<"1">>)
    /\ flag(req, "to") = Some(<<"2">>)
    /\ ErrorEnvelope.message =
          <<"Query failed: ", "CREATE did not return a relationship ">> \o MisreadDash
              \o <<" check that both nodes exist">>

---------------------------------------------------------------------------
(* A store call that fails                                                 *)

Queries == SelectSeq(calls, LAMBDA c : c \in {"execute", "run"})

\* a store call of the command has failed with the description msg
StoreCallFailed == msg # <<>>

\* C23: once a store call of a command (connect, execute, run, next) has
\* failed, the command has ended with the classified error of that failure:
\* no later store call is issued and no success envelope is returned, so
\* schema stops at the first of its four fetches that fails and schema count
\* returns no counts when one of its two queries fails.
C23_StoreFailureEndsCommand ==
    StoreCallFailed =>
        /\ pc = "done"
        /\ Errored
        /\ err = map_neo4j_error(msg)
        /\ ErrorEnvelope = CommandError(err)
        /\ Len(Queries) = step
        /\ step <= steps_of(req.cmd)
        /\ Len(parts) < steps_of(req.cmd)
        /\ calls[Len(calls)] \in {"connect", "execute", "run", "next"}

C23_Witness ==
    /\ StoreCallFailed
    /\ req.cmd = "schema"
    /\ step = 3
    /\ Len(parts) = 2
    /\ Len(parts[1]) > 0
    /\ calls[Len(calls)] = "next"
    /\ Errored

C23_CountWitness ==
    /\ StoreCallFailed
    /\ req.cmd = "schema count"
    /\ step = 2
    /\ Len(parts) = 1
    /\ Errored

---------------------------------------------------------------------------
(* The SET clause of the queries that write properties                     *)

\* the pieces of query text that end with the keyword SET
SetKeywords == {") SET ", "MATCH (n) WHERE id(n) = $id SET ", " SET "}

\* the command has compiled a query from a JSON object of properties
WritesProps ==
    /\ IsSome(query)
    /\ \/ req.cmd \in {"node create", "node update"}
       \/ req.cmd = "rel create" /\ IsSome(flag(req, "props"))

WrittenProps == props_of(req, IF req.cmd = "node update" THEN "set" ELSE "props")

HasSetClause == \E i \in 1..Len(Unwrap(query).text) : Unwrap(query).text[i] \in SetKeywords

Assignments == {i \in 1..Len(Unwrap(query).text) : Unwrap(query).text[i] = " = $"}

SetClauseMatchesProps ==
    /\ HasSetClause <=> Len(WrittenProps) > 0
    /\ HasSetClause => Cardinality(Assignments) = Len(WrittenProps)

\* C24: the query text that node create, node update and rel create with
\* --props compile from a JSON object has a SET clause exactly when the
\* object is not empty, with one assignment per key of the object.
C24_SetClauseIffPropsGiven == WritesProps => SetClauseMatchesProps

\* the same for node create, and for the three commands when the object is
\* not empty
C24_SetClauseOfCreateAndNonEmpty ==
    (WritesProps /\ (req.cmd = "node create" \/ Len(WrittenProps) > 0)) => SetClauseMatchesProps

C24_EmptyCreateHasNoSet ==
    /\ WritesProps
    /\ req.cmd = "node create"
    /\ flag(req, "props") = Some(J_empty)
    /\ ~HasSetClause
    /\ Unwrap(query).text = <<"CREATE (n:", BT, "P", BT, ") RETURN n">>

---------------------------------------------------------------------------
(* The type of the parameter bound for a JSON value                        *)

\* the command has compiled a query with parameters taken from a JSON object
BindsJson ==
    /\ IsSome(query)
    /\ \/ req.cmd \in {"node create", "node update"}
       \/ req.cmd = "rel create" /\ IsSome(flag(req, "props"))
       \/ req.cmd = "query" /\ IsSome(flag(req, "params"))

BoundJson ==
    props_of(req, CASE req.cmd = "node update" -> "set"
                    [] req.cmd = "query" -> "params"
                    [] OTHER -> "props")

\* the parameter the mapping gives for a JSON value; a number has an exact
\* integer representation when it is an integer that an i64 holds
InferredParam(v) ==
    CASE v.tag = "String" -> [type |-> "String", n |-> 0, s |-> v.s]
      [] v.tag = "Number" /\ v.class \in {"PosInt", "NegInt"} ->
            [type |-> "Integer", n |-> v.n, s |-> <<>>]
      [] v.tag = "Number" /\ v.class \notin {"PosInt", "NegInt"} ->
            [type |-> "Float", n |-> 0, s |-> v.s]
      [] v.tag = "Bool" -> [type |-> "Boolean", n |-> v.n, s |-> <<>>]
      [] v.tag \in {"Null", "Array", "Object"} -> [type |-> "String", n |-> 0, s |-> v.s]

Bound(name) == {b.value : b \in {x \in Unwrap(query).params : x.name = name}}

\* C25: node create, node update, rel create and query --params bind every
\* value of the JSON object by the same mapping: a string as a string, an
\* integer that an i64 holds as an integer, any other number as a float, a
\* boolean as a boolean, and null, an array or an object as the string of
\* its JSON text.
C25_ParamTypeInferred ==
    BindsJson => \A i \in 1..Len(BoundJson) :
                    Bound(BoundJson[i].key) = {InferredParam(BoundJson[i].value)}

C25_Witness ==
    /\ BindsJson
    /\ req.cmd = "query"
    /\ flag(req, "params") = Some(J_kinds)
    /\ Bound(<<"a">>) = {PString(<<"[1]">>)}
    /\ Bound(<<"b">>) = {PFloat(<<"9223372036854775808">>)}
    /\ Bound(<<"d">>) = {PFloat(<<"1.0">>)}
    /\ Bound(<<"f">>) = {PString(<<"{\"k\":null}">>)}

C25_RelWitness ==
    /\ BindsJson
    /\ req.cmd = "rel create"
    /\ flag(req, "props") = Some(J_flag)
    /\ Bound(<<"c">>) = {PBoolean(TRUE)}
    /\ Bound(<<"a">>) = {PInteger(2)}

---------------------------------------------------------------------------
(* The JSON of a node and of a relationship                                *)

\* the first decode that succeeds, by the kind of the stored value; a float
\* that is no number (NaN, an infinity) decodes and is written as null, JSON
\* having no such number
FirstDecode(v, lists) ==
    CASE v.bt = "Integer" -> JInt(v.n)
      [] v.bt = "Float" /\ v.s \in {<<"NaN">>, <<"inf">>, <<"-inf">>} -> JNull
      [] v.bt = "Float" -> JFloat(v.s)
      [] v.bt = "Boolean" -> JBool(v.n = 1)
      [] v.bt = "String" -> JString(v.s)
      [] lists /\ v.bt = "List" /\ \A i \in 1..Len(v.items) : v.items[i].bt = "String" ->
            JArray(<<>>, [i \in 1..Len(v.items) |-> JString(v.items[i].s)])
      [] lists /\ v.bt = "List" /\ \A i \in 1..Len(v.items) : v.items[i].bt = "Integer" ->
            JArray(<<>>, [i \in 1..Len(v.items) |-> JInt(v.items[i].n)])
      [] OTHER -> JNull

\* the entity and the JSON made of it, for the commands that return one
\* entity or a list of relationships
Converted ==
    CASE req.cmd \in {"node get", "node create", "node update"} ->
            {<<stream[1].val, Data.node>>}
      [] req.cmd = "rel create" -> {<<stream[1].val, Data.relationship>>}
      [] req.cmd = "rel find" ->
            {<<stream[i].val, Data.relationships[i]>> : i \in 1..Len(Data.relationships)}
      [] OTHER -> {}

ReservedKeys(entity) ==
    IF entity.bt = "Node" THEN {K_id, K_labels}
    ELSE {K_id, K_start_node_id, K_end_node_id, K_type}

\* the keys the conversion adds hold the id, the labels, the endpoints and
\* the type of the entity
ReservedHold(entity, json) ==
    /\ map_get(json, K_id) = Some(JInt(entity.n))
    /\ entity.bt = "Node" =>
          map_get(json, K_labels) =
              Some(JArray(<<>>, [i \in 1..Len(entity.labels) |-> JString(entity.labels[i])]))
    /\ entity.bt = "Relation" =>
          /\ map_get(json, K_start_node_id) = Some(JInt(entity.start))
          /\ map_get(json, K_end_node_id) = Some(JInt(entity.end))
          /\ map_get(json, K_type) = Some(JString(entity.typ))

PropsDecoded(entity, json) ==
    \A j \in 1..Len(entity.props) :
        entity.props[j].key \notin ReservedKeys(entity) =>
            map_get(json, entity.props[j].key)
                = Some(FirstDecode(entity.props[j].val, entity.bt = "Node"))

\* every row of a rel find is a relationship
AllConverted == req.cmd = "rel find" => \A i \in 1..Len(stream) : stream[i].val.bt = "Relation"

EntityReturned == Succeeded /\ AllConverted /\ Converted # {}

\* C26: the JSON of a node holds the internal id of the node under _id and
\* its labels under _labels whatever the names of its properties, and every
\* other property as its first successful decode (integer, float, boolean,
\* string, list of strings, list of integers, else null); the JSON of a
\* relationship holds _id, _start_node_id, _end_node_id and _type likewise,
\* and a list property of a relationship is null.
C26_ReservedKeysAndDecodedProps ==
    EntityReturned =>
        \A c \in Converted : ReservedHold(c[1], c[2]) /\ PropsDecoded(c[1], c[2])

\* the same for the entities that have no property named like a key the
\* conversion adds; the other properties are decoded in every case
C26_HoldsWithoutReservedNames ==
    EntityReturned =>
        \A c \in Converted :
            /\ PropsDecoded(c[1], c[2])
            /\ (\A j \in 1..Len(c[1].props) : c[1].props[j].key \notin ReservedKeys(c[1]))
                  => ReservedHold(c[1], c[2])

C26_MixedDecoded ==
    /\ EntityReturned
    /\ req.cmd = "node get"
    /\ stream[1].val = NodeMixed
    /\ map_get(Data.node, <<"b">>) = Some(JArray(<<>>, <<JInt(1)>>))
    /\ map_get(Data.node, <<"d">>) = Some(JNull)
    /\ map_get(Data.node, <<"m">>) = Some(JNull)
    /\ map_get(Data.node, <<"n">>) = Some(JNull)

C26_RelListIsNull ==
    /\ EntityReturned
    /\ req.cmd = "rel find"
    /\ stream = <<Row("r", RelMixed)>>
    /\ map_get(Data.relationships[1], <<"a">>) = Some(JNull)
    /\ map_get(Data.relationships[1], <<"f">>) = Some(JFloat(<<"1.5">>))

---------------------------------------------------------------------------
(* The WHERE clause of rel find                                            *)

RelFindCompiled == req.cmd = "rel find" /\ IsSome(query)

InText(piece) == \E i \in 1..Len(Unwrap(query).text) : Unwrap(query).text[i] = piece

ParamNames == {b.name : b \in Unwrap(query).params}

\* the id a filter gives, when it is a well-formed id
FilterId(name) == parse_i64(Unwrap(flag(req, name)))

\* one condition and one parameter for each endpoint filter in the set
WhereIsConjunctionOf(filters) ==
    /\ InText("id(a) = $from_id") <=> "from" \in filters
    /\ InText("id(b) = $to_id") <=> "to" \in filters
    /\ InText(" WHERE ") <=> filters # {}
    /\ InText(" AND ") <=> filters = {"from", "to"}
    /\ ParamNames = {P_from_id : x \in filters \cap {"from"}} \cup {P_to_id : x \in filters \cap {"to"}}
    /\ \A b \in Unwrap(query).params :
          b.value = PInteger(Unwrap(FilterId(IF b.name = P_from_id THEN "from" ELSE "to")))

FiltersGiven == {f \in {"from", "to"} : IsSome(flag(req, f))}

\* C27: the query of rel find has one condition, with its parameter, for
\* each of --from and --to that the request gives, joined by AND when both
\* are given, and no WHERE clause when none is: the relationships asked for
\* are those of the endpoints the request names.
C27_WhereOverGivenFilters == RelFindCompiled => WhereIsConjunctionOf(FiltersGiven)

\* the same over the filters whose value is a well-formed id
C27_WhereOverWellFormedFilters ==
    RelFindCompiled => WhereIsConjunctionOf({f \in FiltersGiven : IsSome(FilterId(f))})

C27_BothFilters ==
    /\ RelFindCompiled
    /\ Succeeded
    /\ flag(req, "from") = Some(<<"1">>)
    /\ flag(req, "to") = Some(<<"2">>)
    /\ InText(" AND ")
    /\ ParamNames = {P_from_id, P_to_id}

---------------------------------------------------------------------------
(* The parameters that select the entities                                 *)

FlagId(name) == Unwrap(parse_i64(Unwrap(flag(req, name))))

\* the selecting parameters of the compiled query hold the ids given on the
\* command line
SelectorsKept ==
    /\ req.cmd = "node update" => Bound(P_id) = {PInteger(id_of(req))}
    /\ req.cmd = "rel create" =>
          /\ Bound(P_from_id) = {PInteger(FlagId("from"))}
          /\ Bound(P_to_id) = {PInteger(FlagId("to"))}

Selects == IsSome(query) /\ req.cmd \in {"node update", "rel create"}

\* the keys of the --set or --props object of the command
ObjectKeys ==
    IF req.cmd = "node update"
    THEN {keys(props_of(req, "set"))[i] : i \in 1..Len(props_of(req, "set"))}
    ELSE IF IsSome(flag(req, "props"))
    THEN {keys(props_of(req, "props"))[i] : i \in 1..Len(props_of(req, "props"))}
    ELSE {}

\* C28: whatever the keys of the --set or --props object, after all property
\* parameters are bound the parameter id of node update is the positional
\* node id, and the parameters from_id and to_id of rel create are --from and
\* --to: the command addresses no other entity.
C28_SelectorsKeepGivenIds == Selects => SelectorsKept

\* the same when no key of the object is named id, from_id or to_id
C28_SelectorsKeptUnlessNamedAlike ==
    (Selects /\ ObjectKeys \cap {P_id, P_from_id, P_to_id} = {}) => SelectorsKept

\* node update 1 --set={"id":2} has changed node 2 and returned it
C28_OtherNodeUpdated ==
    /\ Succeeded
    /\ req.cmd = "node update"
    /\ arg(req) = Some(<<"1">>)
    /\ flag(req, "set") = Some(J_idkey)
    /\ Before = People(2)
    /\ Now.nodes[1] = Before.nodes[1]
    /\ Now.nodes[2] # Before.nodes[2]
    /\ map_get(Data.node, K_id) = Some(JInt(2))

=============================================================================
